---- MODULE Spec2Model ----
(***************************************************************************)
(* A model of the S3-compatible storage engine of do-s3 (the Durable       *)
(* Object class S3 of s3.ts): the chunked rows of the tables objects,      *)
(* multipart_uploads and multipart_parts, the request handlers that read   *)
(* and write them, and the requests suspended at the handlers' awaits.     *)
(*                                                                         *)
(* Strings are sequences of UTF-16 code units (integers), so that the      *)
(* comparisons of SQLite (BINARY collation) and the code-unit arithmetic   *)
(* of String.fromCharCode are computed and not assumed.  SQLite compares   *)
(* the UTF-8 bytes, which order strings as their code units do as long as  *)
(* no surrogate occurs; the model's strings hold none.  Bytes of a body    *)
(* are small integers.  Timestamps (last_modified, created_at) and the     *)
(* random request ids are left out: no handler reads them back to decide   *)
(* anything.                                                               *)
(*                                                                         *)
(* Spec: two keys, one handler.  SpecMultipart: one key, two part numbers. *)
(* SpecRace: one key, two handlers suspended at once.  SpecList: listings  *)
(* of a bucket holding any subset of nine keys.  SpecLifecycle: the object *)
(* is constructed and discarded over stores of older versions.  SpecFetch: *)
(* requests of every outcome with WebSocket subscribers.  SpecAuth: every  *)
(* operation under every kind of Authorization header.  SpecDispatch:      *)
(* handleRequest over every combination of its inputs.                     *)
(***************************************************************************)
EXTENDS Integers, Sequences, FiniteSets, TLC

VARIABLES
    objects,      \* the rows of table objects
    uploads,      \* the rows of table multipart_uploads
    parts,        \* the rows of table multipart_parts
    inflight,     \* handlers suspended at an await, with their locals
    nextUuid,     \* how many upload ids crypto.randomUUID() has handed out
    resp,         \* the request that completed last and its response
    lastPut,      \* history: per (bucket, key) the body of the latest PutObject still in place
    lastPart,     \* history: per (upload id, part number) the body of the latest UploadPart
    live,         \* whether the engine object is constructed
    migrations,   \* the rows of table _migrations
    executed,     \* history: the indices of the migrations run on the store, in order
    webSocketClients, \* the set webSocketClients
    sockets,      \* per WebSocket its state and the events sent to it and not yet read
    request,      \* the request whose response is in resp
    pager         \* a client that lists page by page: its parameters, cursor and pages read

\* What the storage handlers leave alone
host == <<live, migrations, executed, webSocketClients, sockets, pager>>

vars == <<objects, uploads, parts, inflight, nextUuid, resp, lastPut, lastPart, host, request>>

(***************************************************************************)
(* Characters.                                                             *)
(***************************************************************************)
SLASH == 47
PERCENT == 37
\* The number of UTF-16 code units; String.fromCharCode works modulo CodeUnits.
CodeUnits == 65536

Min(a, b) == IF a <= b THEN a ELSE b

StartsWith(s, p) == Len(p) <= Len(s) /\ SubSeq(s, 1, Len(p)) = p
EndsWith(s, c) == Len(s) > 0 /\ s[Len(s)] = c
\* s.slice(n) with a 0-based start
SliceFrom(s, n) == SubSeq(s, n + 1, Len(s))
\* s.indexOf(c) / s.lastIndexOf(c): 0-based, -1 when absent
IndexOf(s, c) ==
    LET hits == {i \in 1..Len(s) : s[i] = c}
    IN  IF hits = {} THEN -1 ELSE (CHOOSE i \in hits : \A j \in hits : i <= j) - 1
LastIndexOf(s, c) ==
    LET hits == {i \in 1..Len(s) : s[i] = c}
    IN  IF hits = {} THEN -1 ELSE (CHOOSE i \in hits : \A j \in hits : i >= j) - 1

\* SQLite's BINARY collation on TEXT, and JavaScript's < on strings: the
\* first differing code unit decides, a proper prefix is smaller.
RECURSIVE StrLess(_, _)
StrLess(a, b) ==
    IF b = <<>> THEN FALSE
    ELSE IF a = <<>> THEN TRUE
    ELSE IF a[1] # b[1] THEN a[1] < b[1]
    ELSE StrLess(Tail(a), Tail(b))
StrLeq(a, b) == a = b \/ StrLess(a, b)

(***************************************************************************)
(* Key derivation.                                                         *)
(***************************************************************************)
computeDepth(key) == Cardinality({i \in 1..Len(key) : key[i] = SLASH})

\* Faulty variant: the trailing slash is not stripped
computeParentUntrimmed(key) ==
    LET lastSlash == LastIndexOf(key, SLASH)
    IN  IF lastSlash = -1 THEN <<>> ELSE SubSeq(key, 1, lastSlash + 1)

computeParent(key) ==
    LET trimmed == IF EndsWith(key, SLASH) THEN SubSeq(key, 1, Len(key) - 1) ELSE key
        lastSlash == LastIndexOf(trimmed, SLASH)
    IN  IF lastSlash = -1 THEN <<>> ELSE SubSeq(trimmed, 1, lastSlash + 1)

(***************************************************************************)
(* The request URL: bucket and key.                                        *)
(***************************************************************************)
IsHex(c) == c \in (48..57) \cup (65..70) \cup (97..102)
HexVal(c) == IF c \in 48..57 THEN c - 48 ELSE IF c \in 65..70 THEN c - 55 ELSE c - 87

\* decodeURIComponent throws URIError on a '%' that two hex digits do not follow.
RECURSIVE URIMalformed(_)
URIMalformed(s) ==
    IF s = <<>> THEN FALSE
    ELSE IF s[1] # PERCENT THEN URIMalformed(Tail(s))
    ELSE IF Len(s) >= 3 /\ IsHex(s[2]) /\ IsHex(s[3]) THEN URIMalformed(SliceFrom(s, 3))
    ELSE TRUE

\* decodeURIComponent on a well-formed string whose escapes are ASCII (%00..%7F).
RECURSIVE decodeURIComponent(_)
decodeURIComponent(s) ==
    IF s = <<>> THEN <<>>
    ELSE IF s[1] = PERCENT /\ Len(s) >= 3 /\ IsHex(s[2]) /\ IsHex(s[3])
         THEN <<HexVal(s[2]) * 16 + HexVal(s[3])>> \o decodeURIComponent(SliceFrom(s, 3))
    ELSE <<s[1]>> \o decodeURIComponent(Tail(s))

\* url.pathname.split("/").filter((p) => p.length > 0): the first part, or <<>>
\* when there is none.
RECURSIVE FirstPathPart(_)
FirstPathPart(pathname) ==
    IF pathname = <<>> THEN <<>>
    ELSE IF pathname[1] = SLASH THEN FirstPathPart(Tail(pathname))
    ELSE LET i == IndexOf(pathname, SLASH)
         IN  IF i = -1 THEN pathname ELSE SubSeq(pathname, 1, i)

\* Faulty variant: the key with a trailing "/" dropped
ExtractKeyTrimmed(pathname, bucket) ==
    LET bucketPrefix == <<SLASH>> \o bucket
        raw == IF StartsWith(pathname, bucketPrefix \o <<SLASH>>)
               THEN decodeURIComponent(SliceFrom(pathname, Len(bucketPrefix) + 1))
               ELSE <<>>
    IN  IF EndsWith(raw, SLASH) THEN SubSeq(raw, 1, Len(raw) - 1) ELSE raw

\* Faulty variant: the key decoded a second time
ExtractKeyDecodedTwice(pathname, bucket) ==
    LET bucketPrefix == <<SLASH>> \o bucket
    IN  IF StartsWith(pathname, bucketPrefix \o <<SLASH>>)
        THEN decodeURIComponent(
                 decodeURIComponent(SliceFrom(pathname, Len(bucketPrefix) + 1)))
        ELSE <<>>

\* fetch: the key is what follows "/<bucket>/", decoded once, trailing slashes kept.
ExtractKey(pathname, bucket) ==
    LET bucketPrefix == <<SLASH>> \o bucket
    IN  IF StartsWith(pathname, bucketPrefix \o <<SLASH>>)
        THEN decodeURIComponent(SliceFrom(pathname, Len(bucketPrefix) + 1))
        ELSE <<>>

(***************************************************************************)
(* The chunked rows.                                                       *)
(***************************************************************************)
\* 1 MiB in the source; the model's bodies are a few bytes long, and so is a chunk.
CHUNK_SIZE == 2

\* SQL NULL in the columns depth and parent
NullDepth == -1
NullParent == <<-1>>

\* An ETag: the MD5 of a body (modelled as the body itself under a tag: no
\* collisions), the synthetic "<uuid>-<N>" of a completed upload, or "".
Md5(data) == [kind |-> "md5", of |-> data, n |-> 0]
SyntheticETag(n) == [kind |-> "uuid", of |-> <<>>, n |-> n]
EmptyETag == [kind |-> "", of |-> <<>>, n |-> 0]

\* dataArray.slice(from, to)
Slice(data, from, to) == SubSeq(data, from + 1, Min(to, Len(data)))

RowsOf(objs, bucket, key) == {r \in objs : r.bucket = bucket /\ r.key = key}

\* Faulty variant: DELETE FROM objects WHERE bucket = ?
DeleteObjectRowsOfBucket(objs, bucket, key) == {r \in objs : r.bucket # bucket}

\* DELETE FROM objects WHERE bucket = ? AND key = ?
DeleteObjectRows(objs, bucket, key) == objs \ RowsOf(objs, bucket, key)

\* The rows the INSERT statements of putObject add for one body.
\* Faulty variant: the INSERT of chunk 0 alone, the loop over the further chunks left out
PutObjectRowsFirstChunkOnly(bucket, key, data, contentType) ==
    {[bucket |-> bucket, key |-> key, chunk_index |-> 0, size |-> Len(data),
      etag |-> Md5(data), content_type |-> contentType,
      data |-> IF Len(data) = 0 THEN <<>> ELSE Slice(data, 0, Min(CHUNK_SIZE, Len(data))),
      depth |-> computeDepth(key), parent |-> computeParent(key)]}

PutObjectRows(bucket, key, data, contentType) ==
    LET size == Len(data)
        chunk0 == [bucket |-> bucket, key |-> key, chunk_index |-> 0, size |-> size,
                   etag |-> Md5(data), content_type |-> contentType,
                   data |-> IF size = 0 THEN <<>> ELSE Slice(data, 0, Min(CHUNK_SIZE, size)),
                   depth |-> computeDepth(key), parent |-> computeParent(key)]
        \* for (offset = CHUNK_SIZE; offset < size; offset += CHUNK_SIZE)
        further == IF size > CHUNK_SIZE THEN 1..((size - 1) \div CHUNK_SIZE) ELSE {}
    IN  {chunk0} \cup
        {[bucket |-> bucket, key |-> key, chunk_index |-> i, size |-> 0,
          etag |-> EmptyETag, content_type |-> "",
          data |-> Slice(data, i * CHUNK_SIZE, Min(i * CHUNK_SIZE + CHUNK_SIZE, size)),
          depth |-> NullDepth, parent |-> NullParent] : i \in further}

\* The rows of a set in ascending chunk_index (ORDER BY chunk_index).
RECURSIVE OrderByChunkIndex(_)
OrderByChunkIndex(rows) ==
    IF rows = {} THEN <<>>
    ELSE LET first == CHOOSE r \in rows : \A q \in rows : r.chunk_index <= q.chunk_index
         IN  <<first>> \o OrderByChunkIndex(rows \ {first})

RECURSIVE ConcatData(_)
ConcatData(chunks) ==
    IF chunks = <<>> THEN <<>> ELSE Head(chunks).data \o ConcatData(Tail(chunks))

Zeros(n) == [i \in 1..n |-> 0]

(***************************************************************************)
(* Responses.  One record shape for every operation; a field an operation  *)
(* does not set keeps its value of NoResponse.                             *)
(***************************************************************************)
NoResponse ==
    [op |-> "", status |-> 0, code |-> "", bucket |-> <<>>, key |-> <<>>,
     body |-> <<>>, contentLength |-> 0, etag |-> EmptyETag, contentType |-> "",
     uploadId |-> 0, partNumber |-> 0, source |-> <<>>, reqBody |-> <<>>,
     contents |-> <<>>, commonPrefixes |-> <<>>, isTruncated |-> FALSE,
     nextContinuationToken |-> <<>>, prefix |-> <<>>, delimiter |-> <<>>,
     path |-> <<>>, copySource |-> <<>>, uploads |-> <<>>, nextKeyMarker |-> <<>>,
     nextUploadIdMarker |-> 0]

errorResponse(op, bucket, key, code, status) ==
    [NoResponse EXCEPT !.op = op, !.bucket = bucket, !.key = key,
                       !.code = code, !.status = status]

\* getObject: the response for (bucket, key) out of the rows objs.
getObject(objs, bucket, key, headOnly) ==
    LET op == IF headOnly THEN "HeadObject" ELSE "GetObject"
        rows == {r \in RowsOf(objs, bucket, key) : r.chunk_index = 0}
    IN  IF rows = {} THEN errorResponse(op, bucket, key, "NoSuchKey", 404)
        ELSE
        LET row == CHOOSE r \in rows : TRUE
            headers == [NoResponse EXCEPT !.op = op, !.bucket = bucket, !.key = key,
                            !.status = 200, !.contentType = row.content_type,
                            !.contentLength = row.size, !.etag = row.etag]
            chunks == OrderByChunkIndex(RowsOf(objs, bucket, key))
            stored == ConcatData(chunks)
        IN  IF headOnly THEN headers
            \* combinedData.set(chunkData, offset) throws a RangeError past totalSize
            ELSE IF Len(stored) > row.size
                 THEN errorResponse(op, bucket, key, "InternalError", 500)
            \* new Uint8Array(totalSize) is zero-filled where no chunk is set
            ELSE [headers EXCEPT !.body = stored \o Zeros(row.size - Len(stored))]

(***************************************************************************)
(* ListObjectsV2.                                                          *)
(***************************************************************************)
\* ORDER BY on a TEXT column: ascending in the BINARY collation
RECURSIVE OrderByText(_)
OrderByText(strings) ==
    IF strings = {} THEN <<>>
    ELSE LET first == CHOOSE x \in strings : \A y \in strings : StrLeq(x, y)
         IN  <<first>> \o OrderByText(strings \ {first})

\* LIMIT n (a negative limit is no limit in SQLite)
Limit(rows, n) == IF n < 0 THEN rows ELSE SubSeq(rows, 1, Min(n, Len(rows)))

\* prefix.slice(0, -1) + String.fromCharCode(prefix.charCodeAt(prefix.length - 1) + 1)
prefixUpperBound(prefix) ==
    SubSeq(prefix, 1, Len(prefix) - 1) \o <<(prefix[Len(prefix)] + 1) % CodeUnits>>

\* key >= prefix AND key < prefixUpperBound, the clause added for a non-empty prefix
InPrefixRange(text, prefix) ==
    prefix = <<>> \/ (StrLeq(prefix, text) /\ StrLess(text, prefixUpperBound(prefix)))

\* s.indexOf(d) for a non-empty string d: 0-based, -1 when absent
IndexOfString(s, d) ==
    LET hits == {i \in 1..(Len(s) - Len(d) + 1) : SubSeq(s, i, i + Len(d) - 1) = d}
    IN  IF hits = {} THEN -1 ELSE (CHOOSE i \in hits : \A j \in hits : i <= j) - 1

\* The primary weight of a character in the root collation that localeCompare
\* uses: punctuation ('_' before '/' before '%') before digits before letters,
\* U+FFFF last.
LocaleWeight(c) ==
    IF c = 95 THEN 1
    ELSE IF c = SLASH THEN 2
    ELSE IF c = PERCENT THEN 3
    ELSE IF c \in 48..57 THEN 10 + (c - 48)
    ELSE IF c \in 97..122 THEN 100 + (c - 97)
    ELSE 1000 + c

\* a.localeCompare(b) < 0
RECURSIVE LocaleLess(_, _)
LocaleLess(a, b) ==
    IF b = <<>> THEN FALSE
    ELSE IF a = <<>> THEN TRUE
    ELSE IF a[1] # b[1] THEN LocaleWeight(a[1]) < LocaleWeight(b[1])
    ELSE LocaleLess(Tail(a), Tail(b))

\* allResults.sort((a, b) => a.value.localeCompare(b.value)): a stable sort
RECURSIVE InsertByLocale(_, _)
InsertByLocale(item, sorted) ==
    IF sorted = <<>> THEN <<item>>
    ELSE IF LocaleLess(item.value, Head(sorted).value) THEN <<item>> \o sorted
    ELSE <<Head(sorted)>> \o InsertByLocale(item, Tail(sorted))
RECURSIVE SortByLocale(_)
SortByLocale(items) ==
    IF items = <<>> THEN <<>>
    ELSE InsertByLocale(items[Len(items)], SortByLocale(SubSeq(items, 1, Len(items) - 1)))

SelectSeq2(seq, kind) ==
    LET Is(item) == item.type = kind
        picked == SelectSeq(seq, Is)
    IN  [i \in 1..Len(picked) |-> picked[i].value]

\* What a listing computes: the keys of Contents, the CommonPrefixes, the
\* truncation flag and the token; failed when the handler throws.
ListResult(contents, commonPrefixes, isTruncated, token) ==
    [contents |-> contents, commonPrefixes |-> commonPrefixes,
     isTruncated |-> isTruncated, nextContinuationToken |-> token, failed |-> FALSE]
ListFailed == [ListResult(<<>>, <<>>, FALSE, <<>>) EXCEPT !.failed = TRUE]

\* The branch for delimiter "/": the parent and depth columns.
ListSlash(objs, bucket, prefix, maxKeys, marker) ==
    LET chunk0 == {r \in objs : r.bucket = bucket /\ r.chunk_index = 0}
        targetDepth == computeDepth(prefix) + 1
        markerParent == IF computeParent(marker) # <<>> THEN computeParent(marker)
                        ELSE marker
        prefixRows ==
            Limit(OrderByText({r.parent : r \in
                      {q \in chunk0 : /\ q.depth >= targetDepth
                                      /\ InPrefixRange(q.parent, prefix)
                                      /\ marker # <<>> => StrLess(markerParent, q.parent)}}),
                  maxKeys + 1)
        Kept(parent) == /\ parent # <<>>
                        /\ StartsWith(parent, prefix)
                        /\ computeDepth(parent) = targetDepth
        commonPrefixes == SelectSeq(prefixRows, Kept)
        contentRows ==
            Limit(OrderByText({r.key : r \in
                      {q \in chunk0 : /\ q.parent = prefix
                                      /\ marker # <<>> => StrLess(marker, q.key)}}),
                  maxKeys + 1)
        allResults ==
            SortByLocale([i \in 1..Len(commonPrefixes) |->
                              [type |-> "prefix", value |-> commonPrefixes[i]]]
                         \o [i \in 1..Len(contentRows) |->
                              [type |-> "content", value |-> contentRows[i]]])
        isTruncated == Len(allResults) > maxKeys
        kept == IF isTruncated THEN SubSeq(allResults, 1, maxKeys) ELSE allResults
    IN  \* allResults[allResults.length - 1] is undefined when nothing is kept
        IF isTruncated /\ kept = <<>> THEN ListFailed
        ELSE ListResult(SelectSeq2(kept, "content"), SelectSeq2(kept, "prefix"), isTruncated,
                        IF isTruncated THEN kept[Len(kept)].value ELSE <<>>)

\* The loop of the branch for another delimiter, over the rows left to walk.
RECURSIVE WalkDelimited(_, _, _, _, _)
WalkDelimited(rows, prefix, delimiter, maxKeys, acc) ==
    IF rows = <<>> THEN acc
    ELSE IF Len(acc.contents) + Len(acc.commonPrefixes) >= maxKeys
         THEN [acc EXCEPT !.isTruncated = TRUE]
    ELSE LET key == Head(rows)
             keyAfterPrefix == SliceFrom(key, Len(prefix))
             delimiterIndex == IndexOfString(keyAfterPrefix, delimiter)
             commonPrefix == prefix \o SubSeq(keyAfterPrefix, 1, delimiterIndex + 1)
             seen == {acc.commonPrefixes[i] : i \in 1..Len(acc.commonPrefixes)}
         IN  IF delimiterIndex >= 0
             THEN IF commonPrefix \in seen
                  THEN WalkDelimited(Tail(rows), prefix, delimiter, maxKeys, acc)
                  ELSE WalkDelimited(Tail(rows), prefix, delimiter, maxKeys,
                           [acc EXCEPT !.commonPrefixes = Append(@, commonPrefix),
                                       !.nextContinuationToken = key])
             ELSE WalkDelimited(Tail(rows), prefix, delimiter, maxKeys,
                      [acc EXCEPT !.contents = Append(@, key),
                                  !.nextContinuationToken = key])

\* SELECT key ... WHERE chunk_index = 0 [AND key >= ? AND key < ?] [AND key > ?]
\* ORDER BY key LIMIT ?, of the branches without the parent column
KeyRows(objs, bucket, prefix, marker, limit) ==
    Limit(OrderByText({r.key : r \in
              {q \in objs : /\ q.bucket = bucket /\ q.chunk_index = 0
                            /\ InPrefixRange(q.key, prefix)
                            /\ marker # <<>> => StrLess(marker, q.key)}}),
          limit)

\* The branch for a delimiter other than "/".
ListDelimited(objs, bucket, prefix, delimiter, maxKeys, marker) ==
    WalkDelimited(KeyRows(objs, bucket, prefix, marker, maxKeys * 10 + 1),
                  prefix, delimiter, maxKeys, ListResult(<<>>, <<>>, FALSE, <<>>))

\* Faulty variant: the token is the last row fetched, the one beyond the page
ListPlainTokenBeyondPage(objs, bucket, prefix, maxKeys, marker) ==
    LET rows == KeyRows(objs, bucket, prefix, marker, maxKeys + 1)
        isTruncated == Len(rows) > maxKeys
        kept == Limit(rows, maxKeys)
    IN  ListResult(kept, <<>>, isTruncated,
                   IF isTruncated /\ kept # <<>> THEN rows[Len(rows)] ELSE <<>>)

\* The branch without delimiter; rows.slice(0, maxKeys) for maxKeys >= 0.
ListPlain(objs, bucket, prefix, maxKeys, marker) ==
    LET rows == KeyRows(objs, bucket, prefix, marker, maxKeys + 1)
        isTruncated == Len(rows) > maxKeys
        kept == Limit(rows, maxKeys)
    IN  ListResult(kept, <<>>, isTruncated,
                   IF isTruncated /\ kept # <<>> THEN kept[Len(kept)] ELSE <<>>)

\* listObjectsV2: the response.  The XML carries NextContinuationToken only
\* when the result is truncated and the token is not empty.
listObjectsV2(objs, bucket, prefix, delimiter, maxKeys, startAfter, continuationToken) ==
    LET marker == IF continuationToken # <<>> THEN continuationToken ELSE startAfter
        result == IF delimiter = <<SLASH>>
                  THEN ListSlash(objs, bucket, prefix, maxKeys, marker)
                  ELSE IF delimiter # <<>>
                  THEN ListDelimited(objs, bucket, prefix, delimiter, maxKeys, marker)
                  ELSE ListPlain(objs, bucket, prefix, maxKeys, marker)
    IN  IF result.failed
        THEN errorResponse("ListObjectsV2", bucket, <<>>, "InternalError", 500)
        ELSE [NoResponse EXCEPT !.op = "ListObjectsV2", !.status = 200, !.bucket = bucket,
                  !.prefix = prefix, !.delimiter = delimiter,
                  !.contents = result.contents,
                  !.commonPrefixes = result.commonPrefixes,
                  !.isTruncated = result.isTruncated,
                  !.nextContinuationToken =
                      IF result.isTruncated THEN result.nextContinuationToken ELSE <<>>]

(***************************************************************************)
(* fetch: authentication.  An Authorization header is modelled by what the *)
(* code looks at: its scheme, whether an AWS4 header has a Credential=     *)
(* field, and the token; a token by its text when it is the literal "foo", *)
(* the number of its "."-separated parts, whether atob and JSON.parse      *)
(* decode its middle part, whether the payload has sub and bucket claims,  *)
(* and whether jwtVerify accepts its signature and expiry.                 *)
(***************************************************************************)
NoToken ==
    [text |-> "", parts |-> 0, decodes |-> FALSE, sub |-> FALSE, bucket |-> <<>>,
     signed |-> FALSE, expired |-> FALSE]
NoAuthorization == [scheme |-> "", credential |-> FALSE, token |-> NoToken]

\* A token signToken makes for a bucket, and the literal "foo"
JwtFor(bucket) ==
    [text |-> "jwt", parts |-> 3, decodes |-> TRUE, sub |-> TRUE, bucket |-> bucket,
     signed |-> TRUE, expired |-> FALSE]
FooToken == [NoToken EXCEPT !.text = "foo", !.parts = 1]
Bearer(token) == [scheme |-> "Bearer", credential |-> FALSE, token |-> token]
Aws4(token) == [scheme |-> "AWS4-HMAC-SHA256", credential |-> TRUE, token |-> token]

\* verifyToken: jwtVerify under the secret, then the required claims
verifyToken(token) ==
    token.signed /\ ~token.expired /\ token.sub /\ token.bucket # <<>>

\* A client that is not listing.  state: "idle", "open" while a page is to be
\* asked for, "done" after a page that names no further page; marker and
\* uploadIdMarker: the cursor the next request carries; contents, commonPrefixes
\* and sessions: what the pages read so far held, in the order read.
NoPager ==
    [state |-> "idle", op |-> "", path |-> <<>>, prefix |-> <<>>, delimiter |-> <<>>,
     max |-> 0, marker |-> <<>>, uploadIdMarker |-> 0, contents |-> <<>>,
     commonPrefixes |-> <<>>, sessions |-> <<>>, pages |-> 0]

\* A request as handleRequest and the properties look at it
NoRequest ==
    [method |-> "", key |-> <<>>, uploads |-> "absent", uploadId |-> "absent",
     partNumber |-> "absent", copySource |-> "absent",
     authorization |-> NoAuthorization]

\* fetch from the Authorization header to the bucket check: "foo" and "jwt" let
\* the request through to handleRequest, "rejected" is an error response and
\* "thrown" an exception that nothing in fetch catches.
Authenticate(authorization, bucket) ==
    LET token == authorization.token
        Outcome(outcome, code, status) ==
            [outcome |-> outcome, code |-> code, status |-> status]
        Unauthorized == Outcome("rejected", "Unauthorized", 401)
    IN  IF authorization.scheme = "" THEN Unauthorized
        ELSE IF authorization.scheme \notin {"Bearer", "AWS4-HMAC-SHA256"} THEN Unauthorized
        ELSE IF authorization.scheme = "AWS4-HMAC-SHA256" /\ ~authorization.credential
             THEN Unauthorized
        ELSE IF token.text = "foo" THEN Outcome("foo", "", 0)
        ELSE IF token.parts # 3 THEN Unauthorized
        \* JSON.parse(atob(parts[1])) outside any try
        ELSE IF ~token.decodes THEN Outcome("thrown", "UncaughtException", 500)
        ELSE IF ~token.sub THEN Unauthorized
        ELSE IF ~verifyToken(token) THEN Unauthorized
        ELSE IF token.bucket # bucket THEN Outcome("rejected", "Forbidden", 403)
        ELSE Outcome("jwt", "", 0)

(***************************************************************************)
(* The activity broadcast.                                                 *)
(***************************************************************************)
\* A WebSocket that does not exist
NoSocket == [state |-> "none", outbox |-> <<>>]

\* The event of a response: url.pathname + url.search is given by the bucket and
\* the key the response names; duration and timestamp are left out.
EventOf(method, response) ==
    [method |-> method, bucket |-> response.bucket, key |-> response.key,
     status |-> response.status]

\* Faulty variant: ws.send outside a try; the first send that throws ends the
\* loop, no socket is removed
broadcastRequestInfoUncaught(clients, socks, info) ==
    LET throwing == {ws \in clients : socks[ws].state # "open"}
    IN  [clients |-> clients,
         sockets |-> [ws \in DOMAIN socks |->
                         IF ws \in clients /\ throwing = {}
                         THEN [socks[ws] EXCEPT !.outbox = Append(@, info)]
                         ELSE socks[ws]]]

\* broadcastRequestInfo: ws.send throws on a socket that is not open; the
\* sockets whose send threw are deleted after the loop.
broadcastRequestInfo(clients, socks, info) ==
    LET toRemove == {ws \in clients : socks[ws].state # "open"}
    IN  [clients |-> clients \ toRemove,
         sockets |-> [ws \in DOMAIN socks |->
                         IF ws \in clients \ toRemove
                         THEN [socks[ws] EXCEPT !.outbox = Append(@, info)]
                         ELSE socks[ws]]]

(***************************************************************************)
(* The inputs of the specifications.                                       *)
(***************************************************************************)
\* How many upload ids crypto.randomUUID() hands out.
MaxUploads == 1

\* The handlers that may be suspended at an await at the same time
Handlers == {"h1", "h2"}

\* The request URL's pathname, "/<bucket>/<key>", and the x-amz-copy-source
\* header, "<bucket>/<key>", as a client writes them
PathOf(bucket, key) == <<SLASH>> \o bucket \o <<SLASH>> \o key
SourceOf(bucket, key) == bucket \o <<SLASH>> \o key

\* "b"; "a" and "a/"
Buckets == {<<98>>}
Keys == {<<97>>, <<97, 47>>}
Addrs == Buckets \X Keys
AllPartNumbers == {1, 2}
\* An upload id that crypto.randomUUID() never hands out
UnknownUploadId == MaxUploads + 1

\* parseInt(params.get("max-keys") || "1000")
DefaultMaxKeys == 1000

\* What the clients of one specification send.  handlers: the handlers that
\* take their requests; paths: the URLs of object
\* requests; sources: the x-amz-copy-source headers; bodies: the bodies of
\* PutObject; headers: the Content-Type headers ("" when the request has none);
\* partNumbers, partBodies: the parts of UploadPart; strayIds: the upload ids a
\* client names besides those handed out; bucketPaths, prefixes, delimiters,
\* maxKeys, markers: the URLs and the parameters of ListObjectsV2.
\*
\* Inputs: two keys, bodies of 0, 1 and 3 bytes (none, less than one and more
\* than one chunk), one part of two chunks.
Inputs ==
    [handlers |-> {"h1"},
     paths |-> {PathOf(a[1], a[2]) : a \in Addrs},
     sources |-> {SourceOf(a[1], a[2]) : a \in Addrs},
     bodies |-> {<<>>, <<1>>, <<2, 3, 4>>},
     headers |-> {""},
     partNumbers |-> {1},
     partBodies |-> {<<5, 6, 7>>},
     strayIds |-> {UnknownUploadId},
     bucketPaths |-> {<<SLASH>> \o b : b \in Buckets},
     prefixes |-> {<<>>},
     delimiters |-> {<<>>, <<SLASH>>},
     maxKeys |-> {DefaultMaxKeys},
     markers |-> {<<>>},
     authorizations |-> {Bearer(JwtFor(<<98>>))}]
\* MultipartInputs: one key, two part numbers, part bodies of one and of two chunks.
MultipartInputs ==
    [handlers |-> {"h1"},
     paths |-> {PathOf(<<98>>, <<97>>)},
     sources |-> {SourceOf(<<98>>, <<97>>)},
     bodies |-> {<<>>},
     headers |-> {""},
     partNumbers |-> AllPartNumbers,
     partBodies |-> {<<1>>, <<2, 3, 4>>},
     strayIds |-> {},
     bucketPaths |-> {<<SLASH, 98>>},
     prefixes |-> {<<>>},
     delimiters |-> {<<>>},
     maxKeys |-> {DefaultMaxKeys},
     markers |-> {<<>>},
     authorizations |-> {Bearer(JwtFor(<<98>>))}]

\* Copy sources that copyObject refuses when the bucket is "b" and holds at most
\* the key "a": "c/a" of another bucket, "b" without a key, "b/z" of a key
\* that is not stored
RefusedSources == {SourceOf(<<99>>, <<97>>), <<98>>, SourceOf(<<98>>, <<122>>)}

\* RaceInputs: one key and two handlers, so that two replacements of the key are
\* suspended at once while it is read, copied, completed and deleted.
RaceInputs ==
    [handlers |-> Handlers,
     paths |-> {PathOf(<<98>>, <<97>>)},
     sources |-> {SourceOf(<<98>>, <<97>>)} \cup RefusedSources,
     bodies |-> {<<1>>, <<2, 3, 4>>},
     headers |-> {""},
     partNumbers |-> {1},
     partBodies |-> {<<5, 6, 7>>},
     strayIds |-> {},
     bucketPaths |-> {<<SLASH, 98>>},
     prefixes |-> {<<>>},
     delimiters |-> {<<>>},
     maxKeys |-> {DefaultMaxKeys},
     markers |-> {<<>>},
     authorizations |-> {Bearer(JwtFor(<<98>>))}]

\* history: no PutObject of the key (no UploadPart of the part) is in place
NoBody == <<-1>>

(***************************************************************************)
(* handleRequest: the dispatch.  uploadId = 0 and copySource = <<>> stand  *)
(* for an absent (or empty, hence falsy) parameter and header.             *)
(***************************************************************************)
handleRequest(method, key, hasUploads, uploadId, hasPartNumber, copySource) ==
    IF method = "HEAD" /\ key = <<>> THEN "headBucket"
    ELSE IF method = "GET" /\ key = <<>> /\ hasUploads THEN "listMultipartUploads"
    ELSE IF method = "GET" /\ key = <<>> THEN "listObjectsV2"
    ELSE IF method \in {"GET", "HEAD"} /\ key # <<>> THEN "getObject"
    ELSE IF key # <<>> /\ method = "POST" /\ hasUploads THEN "createMultipartUpload"
    ELSE IF key # <<>> /\ method = "PUT" /\ uploadId # 0 /\ hasPartNumber THEN "uploadPart"
    ELSE IF key # <<>> /\ method = "POST" /\ uploadId # 0 THEN "completeMultipartUpload"
    ELSE IF key # <<>> /\ method = "DELETE" /\ uploadId # 0 THEN "abortMultipartUpload"
    ELSE IF method = "PUT" /\ key # <<>> /\ copySource # <<>> THEN "copyObject"
    ELSE IF method = "PUT" /\ key # <<>> THEN "putObject"
    ELSE IF method = "DELETE" /\ key # <<>> THEN "deleteObject"
    ELSE "NotImplemented"

\* request.headers.get("content-type") || "application/octet-stream"
ContentTypeOf(header) == IF header = "" THEN "application/octet-stream" ELSE header

\* A handler that is not running
Idle == [op |-> "", path |-> <<>>, bucket |-> <<>>, key |-> <<>>, uploadId |-> 0,
         partNumber |-> 0, authorization |-> NoAuthorization]

(***************************************************************************)
(* fetch around handleRequest.  Admitted is the part before the call: the  *)
(* engine is constructed and the header lets the request through.  Return  *)
(* is the part after it: on the path of a verified token the event of the  *)
(* response is broadcast; the branch of the token "foo" returns the        *)
(* handler's response at once.  The bound on the outboxes keeps the unread *)
(* events finite.                                                          *)
(***************************************************************************)
MaxOutbox == 1

Admitted(authorization, bucket) ==
    /\ live
    /\ Authenticate(authorization, bucket).outcome \in {"foo", "jwt"}
    /\ \A ws \in DOMAIN sockets : Len(sockets[ws].outbox) < MaxOutbox

Return(authorization, method, bucket) ==
    LET sent == broadcastRequestInfo(webSocketClients, sockets, EventOf(method, resp'))
    IN  /\ request' = [NoRequest EXCEPT !.method = method,
                                        !.authorization = authorization]
        /\ IF Authenticate(authorization, bucket).outcome = "jwt"
           THEN /\ webSocketClients' = sent.clients
                /\ sockets' = sent.sockets
           ELSE UNCHANGED <<webSocketClients, sockets>>
        /\ UNCHANGED <<live, migrations, executed, pager>>

Fetch(in, method, bucket) ==
    \E authorization \in in.authorizations :
        /\ Admitted(authorization, bucket)
        /\ Return(authorization, method, bucket)

(***************************************************************************)
(* PutObject.  The handler awaits request.arrayBuffer() and then           *)
(* crypto.subtle.digest(); other requests are served meanwhile.  No        *)
(* statement between the two awaits reads or writes the engine's state, so *)
(* they are one suspension here; the body the client sends is what the     *)
(* await delivers.  The statements after the digest run without an await.  *)
(***************************************************************************)
\* Faulty variant: the DELETE run before the awaits instead of after them
PutObjectStartDeleting(in) ==
    \E h \in in.handlers, path \in in.paths, authorization \in in.authorizations :
        LET bucket == FirstPathPart(path)
            key == ExtractKey(path, bucket)
        IN  /\ resp = NoResponse
            /\ Admitted(authorization, bucket)
            /\ inflight[h] = Idle
            /\ objects' = DeleteObjectRows(objects, bucket, key)
            /\ inflight' = [inflight EXCEPT ![h] =
                   [Idle EXCEPT !.op = "PutObject", !.path = path, !.bucket = bucket,
                                !.key = key, !.authorization = authorization]]
            /\ UNCHANGED <<uploads, parts, nextUuid, resp, lastPut, lastPart, host, request>>

PutObjectStart(in) ==
    \E h \in in.handlers, path \in in.paths, authorization \in in.authorizations :
        LET bucket == FirstPathPart(path)
            key == ExtractKey(path, bucket)
        IN  /\ resp = NoResponse
            /\ Admitted(authorization, bucket)
            /\ inflight[h] = Idle
            /\ handleRequest("PUT", key, FALSE, 0, FALSE, <<>>) = "putObject"
            /\ inflight' = [inflight EXCEPT ![h] =
                   [Idle EXCEPT !.op = "PutObject", !.path = path, !.bucket = bucket,
                                !.key = key, !.authorization = authorization]]
            /\ UNCHANGED <<objects, uploads, parts, nextUuid, resp, lastPut, lastPart, host, request>>

\* The statements of putObject after the digest: DELETE, then the INSERTs.
putObject(objs, bucket, key, data, contentType) ==
    DeleteObjectRows(objs, bucket, key) \cup PutObjectRows(bucket, key, data, contentType)

PutObjectStore(in) ==
    \E h \in in.handlers, data \in in.bodies, header \in in.headers :
        LET bucket == inflight[h].bucket
            key == inflight[h].key
        IN  /\ resp = NoResponse
            /\ inflight[h].op = "PutObject"
            /\ objects' = putObject(objects, bucket, key, data, ContentTypeOf(header))
            /\ inflight' = [inflight EXCEPT ![h] = Idle]
            /\ resp' = [NoResponse EXCEPT !.op = "PutObject", !.bucket = bucket,
                            !.key = key, !.status = 200, !.etag = Md5(data),
                            !.reqBody = data, !.path = inflight[h].path]
            /\ lastPut' = [lastPut EXCEPT ![<<bucket, key>>] = data]
            /\ UNCHANGED <<uploads, parts, nextUuid, lastPart>>
            /\ Return(inflight[h].authorization, "PUT", bucket)

(***************************************************************************)
(* GetObject, HeadObject, DeleteObject: no await between their statements. *)
(***************************************************************************)
GetObject(in) ==
    \E path \in in.paths, method \in {"GET", "HEAD"} :
        LET bucket == FirstPathPart(path)
            key == ExtractKey(path, bucket)
        IN  /\ resp = NoResponse
            /\ handleRequest(method, key, FALSE, 0, FALSE, <<>>) = "getObject"
            /\ resp' = [getObject(objects, bucket, key, method = "HEAD")
                            EXCEPT !.path = path]
            /\ UNCHANGED <<objects, uploads, parts, inflight, nextUuid, lastPut, lastPart>>
            /\ Fetch(in, method, bucket)

\* Faulty variant: DELETE ... AND chunk_index = 0
deleteObjectFirstChunkOnly(objs, bucket, key) ==
    {r \in objs : ~(r.bucket = bucket /\ r.key = key /\ r.chunk_index = 0)}

deleteObject(objs, bucket, key) == DeleteObjectRows(objs, bucket, key)

DeleteObject(in) ==
    \E path \in in.paths :
        LET bucket == FirstPathPart(path)
            key == ExtractKey(path, bucket)
        IN  /\ resp = NoResponse
            /\ handleRequest("DELETE", key, FALSE, 0, FALSE, <<>>) = "deleteObject"
            /\ objects' = deleteObject(objects, bucket, key)
            /\ resp' = [NoResponse EXCEPT !.op = "DeleteObject", !.bucket = bucket,
                            !.key = key, !.status = 204, !.path = path]
            /\ lastPut' = [lastPut EXCEPT ![<<bucket, key>>] = NoBody]
            /\ UNCHANGED <<uploads, parts, inflight, nextUuid, lastPart>>
            /\ Fetch(in, "DELETE", bucket)

(***************************************************************************)
(* CopyObject: no await between its statements.                            *)
(***************************************************************************)
\* The rows of objects after copyObject's statements, the source found.
\* Faulty variant: only chunk 0 of the source is selected
copyObjectRowsFirstChunkOnly(objs, bucket, destKey, sourceBucket, sourceKey) ==
    LET sourceMeta == CHOOSE r \in RowsOf(objs, sourceBucket, sourceKey) : r.chunk_index = 0
        \* DELETE FROM objects WHERE bucket = ? AND key = ?  (the destination)
        afterDelete == DeleteObjectRows(objs, bucket, destKey)
        \* SELECT chunk_index, data ... of the source, read after the DELETE
        chunks == {r \in RowsOf(afterDelete, sourceBucket, sourceKey) :
                      r.chunk_index = 0}
    IN  afterDelete \cup
        {IF chunk.chunk_index = 0
         THEN [bucket |-> bucket, key |-> destKey, chunk_index |-> 0,
               size |-> sourceMeta.size, etag |-> sourceMeta.etag,
               content_type |-> sourceMeta.content_type, data |-> chunk.data,
               depth |-> computeDepth(destKey), parent |-> computeParent(destKey)]
         ELSE [bucket |-> bucket, key |-> destKey, chunk_index |-> chunk.chunk_index,
               size |-> 0, etag |-> EmptyETag, content_type |-> "", data |-> chunk.data,
               depth |-> NullDepth, parent |-> NullParent] : chunk \in chunks}

\* copyObject, from the DELETE of the destination on
copyObjectRows(objs, bucket, destKey, sourceBucket, sourceKey) ==
    LET sourceMeta == CHOOSE r \in RowsOf(objs, sourceBucket, sourceKey) : r.chunk_index = 0
        \* DELETE FROM objects WHERE bucket = ? AND key = ?  (the destination)
        afterDelete == DeleteObjectRows(objs, bucket, destKey)
        \* SELECT chunk_index, data ... of the source, read after the DELETE
        chunks == RowsOf(afterDelete, sourceBucket, sourceKey)
    IN  afterDelete \cup
        {IF chunk.chunk_index = 0
         THEN [bucket |-> bucket, key |-> destKey, chunk_index |-> 0,
               size |-> sourceMeta.size, etag |-> sourceMeta.etag,
               content_type |-> sourceMeta.content_type, data |-> chunk.data,
               depth |-> computeDepth(destKey), parent |-> computeParent(destKey)]
         ELSE [bucket |-> bucket, key |-> destKey, chunk_index |-> chunk.chunk_index,
               size |-> 0, etag |-> EmptyETag, content_type |-> "", data |-> chunk.data,
               depth |-> NullDepth, parent |-> NullParent] : chunk \in chunks}

\* Faulty variant: the destination is deleted before the source is looked up
CopyObjectDeletingFirst(in) ==
    \E path \in in.paths, copySource \in in.sources :
        LET bucket == FirstPathPart(path)
            destKey == ExtractKey(path, bucket)
            sourcePath == IF StartsWith(copySource, <<SLASH>>) THEN Tail(copySource)
                          ELSE copySource
            slashIndex == IndexOf(sourcePath, SLASH)
            sourceBucket == SubSeq(sourcePath, 1, slashIndex)
            sourceKey == decodeURIComponent(SliceFrom(sourcePath, slashIndex + 1))
            found == \E r \in RowsOf(objects, sourceBucket, sourceKey) : r.chunk_index = 0
            sourceMeta == CHOOSE r \in RowsOf(objects, sourceBucket, sourceKey) :
                              r.chunk_index = 0
            answer(code, status) ==
                [errorResponse("CopyObject", bucket, destKey, code, status)
                    EXCEPT !.source = sourceKey, !.copySource = copySource]
        IN  /\ resp = NoResponse
            /\ handleRequest("PUT", destKey, FALSE, 0, FALSE, copySource) = "copyObject"
            /\ IF slashIndex = -1 \/ sourceBucket # bucket
               THEN /\ resp' = answer("InvalidArgument", 400)
                    /\ UNCHANGED <<objects, lastPut>>
               ELSE IF ~found
               THEN /\ resp' = answer("NoSuchKey", 404)
                    /\ objects' = DeleteObjectRows(objects, bucket, destKey)
                    /\ UNCHANGED lastPut
               ELSE /\ objects' = copyObjectRows(objects, bucket, destKey,
                                                 sourceBucket, sourceKey)
                    /\ resp' = [answer("", 200) EXCEPT !.etag = sourceMeta.etag]
                    /\ lastPut' = [lastPut EXCEPT ![<<bucket, destKey>>] = NoBody]
            /\ UNCHANGED <<uploads, parts, inflight, nextUuid, lastPart>>
            /\ Fetch(in, "PUT", bucket)

\* copyObject: no await between its statements.
CopyObject(in) ==
    \E path \in in.paths, copySource \in in.sources :
        LET bucket == FirstPathPart(path)
            destKey == ExtractKey(path, bucket)
            sourcePath == IF StartsWith(copySource, <<SLASH>>) THEN Tail(copySource)
                          ELSE copySource
            slashIndex == IndexOf(sourcePath, SLASH)
            sourceBucket == SubSeq(sourcePath, 1, slashIndex)
            sourceKey == decodeURIComponent(SliceFrom(sourcePath, slashIndex + 1))
            found == \E r \in RowsOf(objects, sourceBucket, sourceKey) : r.chunk_index = 0
            sourceMeta == CHOOSE r \in RowsOf(objects, sourceBucket, sourceKey) :
                              r.chunk_index = 0
            answer(code, status) ==
                [errorResponse("CopyObject", bucket, destKey, code, status)
                    EXCEPT !.source = sourceKey, !.copySource = copySource]
        IN  /\ resp = NoResponse
            /\ handleRequest("PUT", destKey, FALSE, 0, FALSE, copySource) = "copyObject"
            /\ IF slashIndex = -1 \/ sourceBucket # bucket
               THEN /\ resp' = answer("InvalidArgument", 400)
                    /\ UNCHANGED <<objects, lastPut>>
               ELSE IF ~found
               THEN /\ resp' = answer("NoSuchKey", 404)
                    /\ UNCHANGED <<objects, lastPut>>
               ELSE /\ objects' = copyObjectRows(objects, bucket, destKey,
                                                 sourceBucket, sourceKey)
                    /\ resp' = [answer("", 200) EXCEPT !.etag = sourceMeta.etag]
                    /\ lastPut' = [lastPut EXCEPT ![<<bucket, destKey>>] = NoBody]
            /\ UNCHANGED <<uploads, parts, inflight, nextUuid, lastPart>>
            /\ Fetch(in, "PUT", bucket)

(***************************************************************************)
(* Multipart uploads.                                                      *)
(***************************************************************************)
PartRowsOf(ps, uploadId, partNumber) ==
    {r \in ps : r.upload_id = uploadId /\ r.part_number = partNumber}

\* Faulty variant: the whole body stored in chunk 0
UploadPartRowsUnchunked(uploadId, partNumber, data) ==
    {[upload_id |-> uploadId, part_number |-> partNumber, chunk_index |-> 0,
      size |-> Len(data), etag |-> Md5(data), data |-> data]}

\* The rows the INSERT statements of uploadPart add for one body.
UploadPartRows(uploadId, partNumber, data) ==
    LET size == Len(data)
        further == IF size > CHUNK_SIZE THEN 1..((size - 1) \div CHUNK_SIZE) ELSE {}
    IN  {[upload_id |-> uploadId, part_number |-> partNumber, chunk_index |-> 0,
          size |-> size, etag |-> Md5(data),
          data |-> IF size = 0 THEN <<>> ELSE Slice(data, 0, Min(CHUNK_SIZE, size))]}
        \cup
        {[upload_id |-> uploadId, part_number |-> partNumber, chunk_index |-> i,
          size |-> 0, etag |-> EmptyETag,
          data |-> Slice(data, i * CHUNK_SIZE, Min(i * CHUNK_SIZE + CHUNK_SIZE, size))]
           : i \in further}

\* Faulty variant: createMultipartUpload also inserting an empty object at the key
CreateMultipartUploadWritingObject(in) ==
    \E path \in in.paths, header \in in.headers :
        LET bucket == FirstPathPart(path)
            key == ExtractKey(path, bucket)
        IN  /\ resp = NoResponse
            /\ nextUuid < MaxUploads
            /\ nextUuid' = nextUuid + 1
            /\ uploads' = uploads \cup
                   {[upload_id |-> nextUuid + 1, bucket |-> bucket, key |-> key,
                     content_type |-> ContentTypeOf(header)]}
            /\ objects' = DeleteObjectRows(objects, bucket, key) \cup
                              PutObjectRows(bucket, key, <<>>, ContentTypeOf(header))
            /\ resp' = [NoResponse EXCEPT !.op = "CreateMultipartUpload", !.status = 200,
                            !.bucket = bucket, !.key = key, !.uploadId = nextUuid + 1]
            /\ UNCHANGED <<parts, inflight, lastPut, lastPart>>
            /\ Fetch(in, "POST", bucket)

\* createMultipartUpload: no await; the upload id is a fresh random UUID.
CreateMultipartUpload(in) ==
    \E path \in in.paths, header \in in.headers :
        LET bucket == FirstPathPart(path)
            key == ExtractKey(path, bucket)
            uploadId == nextUuid + 1
        IN  /\ resp = NoResponse
            /\ nextUuid < MaxUploads
            /\ handleRequest("POST", key, TRUE, 0, FALSE, <<>>) = "createMultipartUpload"
            /\ nextUuid' = uploadId
            /\ uploads' = uploads \cup
                   {[upload_id |-> uploadId, bucket |-> bucket, key |-> key,
                     content_type |-> ContentTypeOf(header)]}
            /\ resp' = [NoResponse EXCEPT !.op = "CreateMultipartUpload", !.status = 200,
                            !.bucket = bucket, !.key = key, !.uploadId = uploadId]
            /\ UNCHANGED <<objects, parts, inflight, lastPut, lastPart>>
            /\ Fetch(in, "POST", bucket)

\* uploadPart awaits the body and the digest like putObject.
UploadPartStart(in) ==
    \E h \in in.handlers, path \in in.paths, uploadId \in (1..nextUuid) \cup in.strayIds,
       partNumber \in in.partNumbers, authorization \in in.authorizations :
        LET bucket == FirstPathPart(path)
            key == ExtractKey(path, bucket)
        IN  /\ resp = NoResponse
            /\ Admitted(authorization, bucket)
            /\ inflight[h] = Idle
            /\ handleRequest("PUT", key, FALSE, uploadId, TRUE, <<>>) = "uploadPart"
            /\ inflight' = [inflight EXCEPT ![h] =
                   [op |-> "UploadPart", path |-> path, bucket |-> bucket, key |-> key,
                    uploadId |-> uploadId, partNumber |-> partNumber,
                    authorization |-> authorization]]
            /\ UNCHANGED <<objects, uploads, parts, nextUuid, resp, lastPut, lastPart, host, request>>

\* Faulty variant: the DELETE of the part's earlier rows left out
uploadPartWithoutDelete(ps, uploadId, partNumber, data) ==
    ps \cup UploadPartRows(uploadId, partNumber, data)

\* The statements of uploadPart after the digest: DELETE, then the INSERTs.
uploadPart(ps, uploadId, partNumber, data) ==
    (ps \ PartRowsOf(ps, uploadId, partNumber))
        \cup UploadPartRows(uploadId, partNumber, data)

UploadPartStore(in) ==
    \E h \in in.handlers, data \in in.partBodies :
        LET uploadId == inflight[h].uploadId
            partNumber == inflight[h].partNumber
        IN  /\ resp = NoResponse
            /\ inflight[h].op = "UploadPart"
            /\ parts' = uploadPart(parts, uploadId, partNumber, data)
            /\ inflight' = [inflight EXCEPT ![h] = Idle]
            /\ resp' = [NoResponse EXCEPT !.op = "UploadPart", !.status = 200,
                            !.bucket = inflight[h].bucket, !.key = inflight[h].key,
                            !.uploadId = uploadId, !.partNumber = partNumber,
                            !.etag = Md5(data), !.reqBody = data]
            /\ lastPart' = [lastPart EXCEPT ![<<uploadId, partNumber>>] = data]
            /\ UNCHANGED <<objects, uploads, nextUuid, lastPut>>
            /\ Return(inflight[h].authorization, "PUT", inflight[h].bucket)

\* Faulty variant: ORDER BY part_number DESC
RECURSIVE OrderByPartNumberDescending(_)
OrderByPartNumberDescending(rows) ==
    IF rows = {} THEN <<>>
    ELSE LET first == CHOOSE r \in rows : \A q \in rows : r.part_number >= q.part_number
         IN  <<first>> \o OrderByPartNumberDescending(rows \ {first})

\* ORDER BY part_number over the chunk-0 rows of an upload
RECURSIVE OrderByPartNumber(_)
OrderByPartNumber(rows) ==
    IF rows = {} THEN <<>>
    ELSE LET first == CHOOSE r \in rows : \A q \in rows : r.part_number <= q.part_number
         IN  <<first>> \o OrderByPartNumber(rows \ {first})

RECURSIVE SumSizes(_)
SumSizes(rows) == IF rows = <<>> THEN 0 ELSE Head(rows).size + SumSizes(Tail(rows))

\* The chunks of the parts, part after part, each part's in ascending chunk_index
RECURSIVE PartChunks(_, _, _)
PartChunks(ps, uploadId, partList) ==
    IF partList = <<>> THEN <<>>
    ELSE OrderByChunkIndex(PartRowsOf(ps, uploadId, Head(partList).part_number))
            \o PartChunks(ps, uploadId, Tail(partList))

\* The rows completeMultipartUpload inserts: the chunks re-indexed from 0.
CompletedRows(bucket, key, chunks, totalSize, etag, contentType) ==
    {IF i = 1
     THEN [bucket |-> bucket, key |-> key, chunk_index |-> 0, size |-> totalSize,
           etag |-> etag, content_type |-> contentType, data |-> chunks[i].data,
           depth |-> computeDepth(key), parent |-> computeParent(key)]
     ELSE [bucket |-> bucket, key |-> key, chunk_index |-> i - 1, size |-> 0,
           etag |-> EmptyETag, content_type |-> "", data |-> chunks[i].data,
           depth |-> NullDepth, parent |-> NullParent] : i \in 1..Len(chunks)}

\* Faulty variant: the parts are left behind
DeletePartRowsNot(ps, uploadId) == ps

\* DELETE FROM multipart_parts WHERE upload_id = ?
DeletePartRows(ps, uploadId) == {r \in ps : r.upload_id # uploadId}

\* Faulty variant: the session is deleted before the parts are looked at
CompleteMultipartUploadDroppingSession(in) ==
    \E path \in in.paths, uploadId \in (1..nextUuid) \cup {UnknownUploadId} :
        LET bucket == FirstPathPart(path)
            key == ExtractKey(path, bucket)
            session == {u \in uploads : u.upload_id = uploadId}
            contentType == (CHOOSE u \in session : TRUE).content_type
            partList == OrderByPartNumber(
                            {r \in parts : r.upload_id = uploadId /\ r.chunk_index = 0})
            totalSize == SumSizes(partList)
            etag == SyntheticETag(Len(partList))
            answer(code, status) ==
                [errorResponse("CompleteMultipartUpload", bucket, key, code, status)
                    EXCEPT !.uploadId = uploadId]
        IN  /\ resp = NoResponse
            /\ handleRequest("POST", key, FALSE, uploadId, FALSE, <<>>)
                   = "completeMultipartUpload"
            /\ IF session = {}
               THEN /\ resp' = answer("NoSuchUpload", 404)
                    /\ UNCHANGED <<objects, uploads, parts, lastPut, lastPart>>
               ELSE IF partList = <<>>
               THEN /\ resp' = answer("InvalidPart", 400)
                    /\ uploads' = uploads \ session
                    /\ UNCHANGED <<objects, parts, lastPut, lastPart>>
               ELSE /\ objects' = DeleteObjectRows(objects, bucket, key) \cup
                           CompletedRows(bucket, key, PartChunks(parts, uploadId, partList),
                                         totalSize, etag, contentType)
                    /\ parts' = DeletePartRows(parts, uploadId)
                    /\ uploads' = uploads \ session
                    /\ resp' = [answer("", 200) EXCEPT !.etag = etag]
                    /\ lastPut' = [lastPut EXCEPT ![<<bucket, key>>] = NoBody]
                    /\ lastPart' = [p \in DOMAIN lastPart |->
                                       IF p[1] = uploadId THEN NoBody ELSE lastPart[p]]
            /\ UNCHANGED <<inflight, nextUuid>>
            /\ Fetch(in, "POST", bucket)

\* Faulty variant: the session row survives a successful completion
CompleteMultipartUploadKeepingSession(in) ==
    \E path \in in.paths, uploadId \in (1..nextUuid) \cup {UnknownUploadId} :
        LET bucket == FirstPathPart(path)
            key == ExtractKey(path, bucket)
            session == {u \in uploads : u.upload_id = uploadId}
            contentType == (CHOOSE u \in session : TRUE).content_type
            partList == OrderByPartNumber(
                            {r \in parts : r.upload_id = uploadId /\ r.chunk_index = 0})
            totalSize == SumSizes(partList)
            etag == SyntheticETag(Len(partList))
            answer(code, status) ==
                [errorResponse("CompleteMultipartUpload", bucket, key, code, status)
                    EXCEPT !.uploadId = uploadId]
        IN  /\ resp = NoResponse
            /\ handleRequest("POST", key, FALSE, uploadId, FALSE, <<>>)
                   = "completeMultipartUpload"
            /\ IF session = {}
               THEN /\ resp' = answer("NoSuchUpload", 404)
                    /\ UNCHANGED <<objects, uploads, parts, lastPut, lastPart>>
               ELSE IF partList = <<>>
               THEN /\ resp' = answer("InvalidPart", 400)
                    /\ UNCHANGED <<objects, uploads, parts, lastPut, lastPart>>
               ELSE /\ objects' = DeleteObjectRows(objects, bucket, key) \cup
                           CompletedRows(bucket, key, PartChunks(parts, uploadId, partList),
                                         totalSize, etag, contentType)
                    /\ parts' = DeletePartRows(parts, uploadId)
                    /\ uploads' = uploads
                    /\ resp' = [answer("", 200) EXCEPT !.etag = etag]
                    /\ lastPut' = [lastPut EXCEPT ![<<bucket, key>>] = NoBody]
                    /\ lastPart' = [p \in DOMAIN lastPart |->
                                       IF p[1] = uploadId THEN NoBody ELSE lastPart[p]]
            /\ UNCHANGED <<inflight, nextUuid>>
            /\ Fetch(in, "POST", bucket)

\* completeMultipartUpload: no await (the request body is never read).
CompleteMultipartUpload(in) ==
    \E path \in in.paths, uploadId \in (1..nextUuid) \cup {UnknownUploadId} :
        LET bucket == FirstPathPart(path)
            key == ExtractKey(path, bucket)
            session == {u \in uploads : u.upload_id = uploadId}
            contentType == (CHOOSE u \in session : TRUE).content_type
            partList == OrderByPartNumber(
                            {r \in parts : r.upload_id = uploadId /\ r.chunk_index = 0})
            totalSize == SumSizes(partList)
            etag == SyntheticETag(Len(partList))
            answer(code, status) ==
                [errorResponse("CompleteMultipartUpload", bucket, key, code, status)
                    EXCEPT !.uploadId = uploadId]
        IN  /\ resp = NoResponse
            /\ handleRequest("POST", key, FALSE, uploadId, FALSE, <<>>)
                   = "completeMultipartUpload"
            /\ IF session = {}
               THEN /\ resp' = answer("NoSuchUpload", 404)
                    /\ UNCHANGED <<objects, uploads, parts, lastPut, lastPart>>
               ELSE IF partList = <<>>
               THEN /\ resp' = answer("InvalidPart", 400)
                    /\ UNCHANGED <<objects, uploads, parts, lastPut, lastPart>>
               ELSE /\ objects' = DeleteObjectRows(objects, bucket, key) \cup
                           CompletedRows(bucket, key, PartChunks(parts, uploadId, partList),
                                         totalSize, etag, contentType)
                    /\ parts' = DeletePartRows(parts, uploadId)
                    /\ uploads' = uploads \ session
                    /\ resp' = [answer("", 200) EXCEPT !.etag = etag]
                    /\ lastPut' = [lastPut EXCEPT ![<<bucket, key>>] = NoBody]
                    /\ lastPart' = [p \in DOMAIN lastPart |->
                                       IF p[1] = uploadId THEN NoBody ELSE lastPart[p]]
            /\ UNCHANGED <<inflight, nextUuid>>
            /\ Fetch(in, "POST", bucket)

\* abortMultipartUpload: no await; neither bucket nor key is looked at.
AbortMultipartUpload(in) ==
    \E path \in in.paths, uploadId \in (1..nextUuid) \cup {UnknownUploadId} :
        LET bucket == FirstPathPart(path)
            key == ExtractKey(path, bucket)
        IN  /\ resp = NoResponse
            /\ handleRequest("DELETE", key, FALSE, uploadId, FALSE, <<>>)
                   = "abortMultipartUpload"
            /\ parts' = DeletePartRows(parts, uploadId)
            /\ uploads' = {u \in uploads : u.upload_id # uploadId}
            /\ resp' = [NoResponse EXCEPT !.op = "AbortMultipartUpload", !.status = 204,
                            !.bucket = bucket, !.key = key, !.uploadId = uploadId]
            /\ lastPart' = [p \in DOMAIN lastPart |->
                               IF p[1] = uploadId THEN NoBody ELSE lastPart[p]]
            /\ UNCHANGED <<objects, inflight, nextUuid, lastPut>>
            /\ Fetch(in, "DELETE", bucket)

\* The indices of MIGRATIONS
MigrationCount == 2
Migrations == 0..(MigrationCount - 1)

\* The WebSockets that may connect
Sockets == {"w1", "w2"}

\* The engine as the constructor leaves it, with no subscriber
Constructed ==
    /\ live = TRUE
    /\ migrations = Migrations
    /\ executed = <<0, 1>>
    /\ webSocketClients = {}
    /\ sockets = [ws \in Sockets |-> NoSocket]
    /\ request = NoRequest

Init ==
    /\ Constructed
    /\ objects = {}
    /\ uploads = {}
    /\ parts = {}
    /\ inflight = [h \in Handlers |-> Idle]
    /\ nextUuid = 0
    /\ resp = NoResponse
    /\ lastPut = [a \in Addrs |-> NoBody]
    /\ lastPart = [p \in (1..UnknownUploadId) \X AllPartNumbers |-> NoBody]
    /\ pager = NoPager

\* listObjectsV2: no await between its statements.
ListObjectsV2(in) ==
    \E path \in in.bucketPaths, prefix \in in.prefixes, delimiter \in in.delimiters,
       maxKeys \in in.maxKeys, marker \in in.markers :
        LET bucket == FirstPathPart(path)
            key == ExtractKey(path, bucket)
        IN  /\ resp = NoResponse
            /\ handleRequest("GET", key, FALSE, 0, FALSE, <<>>) = "listObjectsV2"
            /\ resp' = listObjectsV2(objects, bucket, prefix, delimiter, maxKeys,
                                     <<>>, marker)
            /\ UNCHANGED <<objects, uploads, parts, inflight, nextUuid, lastPut, lastPart>>
            /\ Fetch(in, "GET", bucket)

\* fetch returns the handler's response to the client.  No other handler
\* runs between a handler's return and this: there is no await in between.
Respond ==
    /\ resp # NoResponse
    /\ resp' = NoResponse
    /\ request' = NoRequest
    /\ UNCHANGED <<objects, uploads, parts, inflight, nextUuid, lastPut, lastPart, host>>

(***************************************************************************)
(* The life of the engine object.  The constructor runs runMigrations      *)
(* without an await, so it is one step, and no request is handled before   *)
(* it returns.  The platform may discard the object at any time; what is   *)
(* in memory (the suspended handlers, webSocketClients) is lost, the store *)
(* is kept.  A column that does not exist yet reads as null.               *)
(***************************************************************************)
\* Faulty variant: migration 1 without its backfill
Migration1WithoutBackfill(objs) == objs

\* MIGRATIONS[1]: the columns depth and parent, and the backfill of chunk 0
Migration1(objs) ==
    {IF r.chunk_index = 0 /\ (r.depth = NullDepth \/ r.parent = NullParent)
     THEN [r EXCEPT !.depth = computeDepth(r.key), !.parent = computeParent(r.key)]
     ELSE r : r \in objs}

\* MIGRATIONS[0]: CREATE TABLE IF NOT EXISTS leaves the rows there are
Migration0(objs) == objs

\* for (let i = from; i < MIGRATIONS.length; i++) { migration(sql); INSERT i }
RECURSIVE RunFrom(_, _)
RunFrom(i, store) ==
    IF i >= MigrationCount THEN store
    ELSE RunFrom(i + 1,
             [objects |-> IF i = 0 THEN Migration0(store.objects)
                          ELSE Migration1(store.objects),
              migrations |-> store.migrations \cup {i},
              executed |-> Append(store.executed, i)])

\* Faulty variant: every migration is run at every construction
runMigrationsFromZero(store) == RunFrom(0, store)

\* runMigrations: from COALESCE(MAX(version), -1) + 1 on
runMigrations(store) ==
    LET currentVersion ==
            IF store.migrations = {} THEN -1
            ELSE CHOOSE v \in store.migrations : \A w \in store.migrations : w <= v
    IN  RunFrom(currentVersion + 1, store)

Construct ==
    LET store == runMigrations([objects |-> objects, migrations |-> migrations,
                                executed |-> executed])
    IN  /\ ~live
        /\ live' = TRUE
        /\ objects' = store.objects
        /\ migrations' = store.migrations
        /\ executed' = store.executed
        /\ UNCHANGED <<uploads, parts, inflight, nextUuid, resp, lastPut, lastPart,
                       webSocketClients, sockets, request, pager>>

Evict ==
    /\ live
    /\ resp = NoResponse
    /\ live' = FALSE
    /\ inflight' = [h \in Handlers |-> Idle]
    /\ webSocketClients' = {}
    /\ sockets' = [ws \in Sockets |-> NoSocket]
    /\ UNCHANGED <<objects, uploads, parts, nextUuid, resp, lastPut, lastPart,
                   migrations, executed, request, pager>>

(***************************************************************************)
(* The returns of fetch that come before handleRequest, the 501 of         *)
(* handleRequest, and the WebSockets.  The listeners of a socket and its   *)
(* client run between requests.                                            *)
(***************************************************************************)
Methods == {"GET", "HEAD", "PUT", "POST", "DELETE"}

\* fetch: a request the authentication turns away, or that throws in it
Reject(in) ==
    \E path \in in.paths \cup in.bucketPaths, method \in Methods,
       authorization \in in.authorizations :
        LET bucket == FirstPathPart(path)
            refused == Authenticate(authorization, bucket)
        IN  /\ resp = NoResponse
            /\ live
            /\ refused.outcome \in {"rejected", "thrown"}
            /\ resp' = [errorResponse("fetch", bucket, <<>>, refused.code, refused.status)
                            EXCEPT !.path = path]
            /\ request' = [NoRequest EXCEPT !.method = method,
                                            !.authorization = authorization]
            /\ UNCHANGED <<objects, uploads, parts, inflight, nextUuid, lastPut,
                           lastPart, host>>

\* fetch: a pathname without a bucket, whatever the Authorization header
NoBucket(in) ==
    \E method \in Methods, authorization \in in.authorizations :
        /\ resp = NoResponse
        /\ live
        /\ FirstPathPart(<<SLASH>>) = <<>>
        /\ resp' = [errorResponse("fetch", <<>>, <<>>, "NoSuchBucket", 404)
                        EXCEPT !.path = <<SLASH>>]
        /\ request' = [NoRequest EXCEPT !.method = method,
                                        !.authorization = authorization]
        /\ UNCHANGED <<objects, uploads, parts, inflight, nextUuid, lastPut,
                       lastPart, host>>

\* handleRequest: no branch matches
NotImplemented(in) ==
    \E path \in in.paths \cup in.bucketPaths, method \in Methods :
        LET bucket == FirstPathPart(path)
            key == ExtractKey(path, bucket)
        IN  /\ resp = NoResponse
            /\ handleRequest(method, key, FALSE, 0, FALSE, <<>>) = "NotImplemented"
            /\ resp' = [errorResponse("handleRequest", bucket, key, "NotImplemented", 501)
                            EXCEPT !.path = path]
            /\ UNCHANGED <<objects, uploads, parts, inflight, nextUuid, lastPut,
                           lastPart>>
            /\ Fetch(in, method, bucket)

\* handleWebSocketUpgrade, reached before the bucket and the header are looked at
WebSocketUpgrade ==
    \E ws \in Sockets :
        /\ resp = NoResponse
        /\ live
        /\ sockets[ws].state = "none"
        /\ webSocketClients' = webSocketClients \cup {ws}
        /\ sockets' = [sockets EXCEPT ![ws] = [state |-> "open", outbox |-> <<>>]]
        /\ resp' = [NoResponse EXCEPT !.op = "WebSocketUpgrade", !.status = 101]
        /\ request' = [NoRequest EXCEPT !.method = "GET"]
        /\ UNCHANGED <<objects, uploads, parts, inflight, nextUuid, lastPut, lastPart,
                       live, migrations, executed, pager>>

\* The connection of a socket ends; from now on ws.send throws
SocketCloses ==
    \E ws \in Sockets :
        /\ resp = NoResponse
        /\ sockets[ws].state = "open"
        /\ sockets' = [sockets EXCEPT ![ws].state = "closed"]
        /\ UNCHANGED <<objects, uploads, parts, inflight, nextUuid, resp, lastPut,
                       lastPart, live, migrations, executed, webSocketClients, request, pager>>

\* Faulty variant: the listener does not delete the socket from the set
CloseListenerKeepingSubscriber ==
    \E ws \in Sockets :
        /\ resp = NoResponse
        /\ sockets[ws].state = "closed"
        /\ sockets' = [sockets EXCEPT ![ws] = NoSocket]
        /\ UNCHANGED <<objects, uploads, parts, inflight, nextUuid, resp, lastPut,
                       lastPart, live, migrations, executed, webSocketClients, request, pager>>

\* The "close" or "error" listener of a socket
CloseListener ==
    \E ws \in Sockets :
        /\ resp = NoResponse
        /\ sockets[ws].state = "closed"
        /\ webSocketClients' = webSocketClients \ {ws}
        /\ sockets' = [sockets EXCEPT ![ws] = NoSocket]
        /\ UNCHANGED <<objects, uploads, parts, inflight, nextUuid, resp, lastPut,
                       lastPart, live, migrations, executed, request, pager>>

\* The subscriber takes the oldest event sent to it
ClientRead ==
    \E ws \in Sockets :
        /\ resp = NoResponse
        /\ sockets[ws].outbox # <<>>
        /\ sockets' = [sockets EXCEPT ![ws].outbox = Tail(@)]
        /\ UNCHANGED <<objects, uploads, parts, inflight, nextUuid, resp, lastPut,
                       lastPart, live, migrations, executed, webSocketClients, request, pager>>

Engine(in) ==
    \/ PutObjectStart(in)
    \/ PutObjectStore(in)
    \/ GetObject(in)
    \/ DeleteObject(in)
    \/ CopyObject(in)
    \/ CreateMultipartUpload(in)
    \/ UploadPartStart(in)
    \/ UploadPartStore(in)
    \/ CompleteMultipartUpload(in)
    \/ AbortMultipartUpload(in)
    \/ ListObjectsV2(in)
    \/ Respond

Next == Engine(Inputs)
Spec == Init /\ [][Next]_vars

NextMultipart == Engine(MultipartInputs)
SpecMultipart == Init /\ [][NextMultipart]_vars

NextRace == Engine(RaceInputs)
SpecRace == Init /\ [][NextRace]_vars

(***************************************************************************)
(* Listings of a bucket at rest: the bucket holds any subset of ListKeys,  *)
(* each stored by a PutObject, and clients list it.                        *)
(***************************************************************************)
\* "a", "a/", "a/b", "b/a/b", "a0", "a_b", "a%b", "aab", "a\uFFFFb": a file, a
\* directory marker, a file in a directory, a file two directories deep in a
\* directory that holds no file, a key right after the range of "a/", keys that
\* the LIKE patterns "a_" and "a%" would match, a key after the last code unit.
ListKeys ==
    {<<97>>, <<97, 47>>, <<97, 47, 98>>, <<98, 47, 97, 47, 98>>, <<97, 48>>,
     <<97, 95, 98>>, <<97, 37, 98>>, <<97, 97, 98>>, <<97, 65535, 98>>}

\* The prefixes "", "a", "a/", "a_", "a%", "b", "b/", "a\uFFFF"; no delimiter, "/"
\* and "_"; the default max-keys; no start-after and no continuation-token.
ListInputs ==
    [bucketPaths |-> {<<SLASH, 98>>},
     prefixes |-> {<<>>, <<97>>, <<97, 47>>, <<97, 95>>, <<97, 37>>, <<98>>,
                   <<98, 47>>, <<97, 65535>>},
     delimiters |-> {<<>>, <<SLASH>>, <<95>>},
     maxKeys |-> {DefaultMaxKeys},
     markers |-> {<<>>},
     authorizations |-> {Bearer(JwtFor(<<98>>))}]

InitList ==
    /\ Constructed
    /\ objects \in {UNION {PutObjectRows(<<98>>, k, <<1>>, ContentTypeOf("")) : k \in held}
                       : held \in SUBSET ListKeys}
    /\ uploads = {}
    /\ parts = {}
    /\ inflight = [h \in Handlers |-> Idle]
    /\ nextUuid = 0
    /\ resp = NoResponse
    /\ lastPut = [a \in Addrs |-> NoBody]
    /\ lastPart = [p \in (1..UnknownUploadId) \X AllPartNumbers |-> NoBody]
    /\ pager = NoPager

NextList == ListObjectsV2(ListInputs) \/ Respond
SpecList == InitList /\ [][NextList]_vars

(***************************************************************************)
(* SpecLifecycle: the object is constructed, serves requests, is discarded *)
(* and constructed again, on a store that is new or was left by a version  *)
(* of the code from before migration 1, or from before _migrations.        *)
(***************************************************************************)
LifecycleInputs ==
    [handlers |-> {"h1"},
     paths |-> {PathOf(a[1], a[2]) : a \in Addrs},
     sources |-> {SourceOf(a[1], a[2]) : a \in Addrs},
     bodies |-> {<<2, 3, 4>>},
     headers |-> {""},
     partNumbers |-> {1},
     partBodies |-> {<<5, 6, 7>>},
     strayIds |-> {},
     bucketPaths |-> {<<SLASH, 98>>},
     prefixes |-> {<<>>},
     delimiters |-> {<<SLASH>>},
     maxKeys |-> {DefaultMaxKeys},
     markers |-> {<<>>},
     authorizations |-> {Bearer(JwtFor(<<98>>))}]

\* The rows of an object in a table that has no columns depth and parent
OldRows(bucket, key, data) ==
    {[r EXCEPT !.depth = NullDepth, !.parent = NullParent] :
        r \in PutObjectRows(bucket, key, data, "application/octet-stream")}

InitLifecycle ==
    /\ live = FALSE
    /\ \/ /\ migrations = {} /\ executed = <<>> /\ objects = {}
       \/ /\ \/ migrations = {} /\ executed = <<>>
             \/ migrations = {0} /\ executed = <<0>>
          /\ \E stored \in (SUBSET Addrs) \ {{}} :
                objects = UNION {OldRows(a[1], a[2], <<2, 3, 4>>) : a \in stored}
    /\ uploads = {}
    /\ parts = {}
    /\ inflight = [h \in Handlers |-> Idle]
    /\ nextUuid = 0
    /\ resp = NoResponse
    /\ lastPut = [a \in Addrs |-> NoBody]
    /\ lastPart = [p \in (1..UnknownUploadId) \X AllPartNumbers |-> NoBody]
    /\ pager = NoPager
    /\ webSocketClients = {}
    /\ sockets = [ws \in Sockets |-> NoSocket]
    /\ request = NoRequest

NextLifecycle == Engine(LifecycleInputs) \/ Construct \/ Evict
SpecLifecycle == InitLifecycle /\ [][NextLifecycle]_vars

(***************************************************************************)
(* SpecFetch: requests of every outcome while subscribers connect, are     *)
(* sent events, read them and go away.                                     *)
(***************************************************************************)
FetchInputs ==
    [handlers |-> {"h1"},
     paths |-> {PathOf(<<98>>, <<97>>)},
     sources |-> {SourceOf(<<98>>, <<97>>)},
     bodies |-> {<<1>>},
     headers |-> {""},
     partNumbers |-> {1},
     partBodies |-> {<<1>>},
     strayIds |-> {},
     bucketPaths |-> {},
     prefixes |-> {<<>>},
     delimiters |-> {<<>>},
     maxKeys |-> {DefaultMaxKeys},
     markers |-> {<<>>},
     authorizations |-> {Bearer(JwtFor(<<98>>)), Bearer(FooToken), NoAuthorization,
                         Bearer(JwtFor(<<99>>))}]

NextFetch ==
    \/ PutObjectStart(FetchInputs)
    \/ PutObjectStore(FetchInputs)
    \/ GetObject(FetchInputs)
    \/ NotImplemented(FetchInputs)
    \/ Reject(FetchInputs)
    \/ NoBucket(FetchInputs)
    \/ WebSocketUpgrade
    \/ SocketCloses
    \/ CloseListener
    \/ ClientRead
    \/ Respond
SpecFetch == Init /\ [][NextFetch]_vars

(***************************************************************************)
(* SpecAuth: every operation under every kind of Authorization header.     *)
(***************************************************************************)
\* Tokens that are not let through for the bucket "b": of two parts; of
\* three parts the middle of which atob or JSON.parse refuses, unsigned and
\* signed; without sub; with a wrong signature; expired; without a bucket
\* claim; for the bucket "c"
RefusedTokens ==
    {[NoToken EXCEPT !.text = "x.y", !.parts = 2],
     [NoToken EXCEPT !.text = "x.y.z", !.parts = 3],
     [JwtFor(<<98>>) EXCEPT !.decodes = FALSE],
     [JwtFor(<<98>>) EXCEPT !.sub = FALSE],
     [JwtFor(<<98>>) EXCEPT !.signed = FALSE],
     [JwtFor(<<98>>) EXCEPT !.expired = TRUE],
     JwtFor(<<>>),
     JwtFor(<<99>>)}

AuthInputs ==
    [handlers |-> {"h1"},
     paths |-> {PathOf(<<98>>, <<97>>)},
     sources |-> {SourceOf(<<98>>, <<97>>)},
     bodies |-> {<<1>>},
     headers |-> {""},
     partNumbers |-> {1},
     partBodies |-> {<<1>>},
     strayIds |-> {},
     bucketPaths |-> {<<SLASH, 98>>},
     prefixes |-> {<<>>},
     delimiters |-> {<<>>},
     maxKeys |-> {DefaultMaxKeys},
     markers |-> {<<>>},
     authorizations |->
         {Bearer(JwtFor(<<98>>)), Aws4(JwtFor(<<98>>)), Bearer(FooToken), Aws4(FooToken),
          NoAuthorization,
          [scheme |-> "Basic", credential |-> FALSE, token |-> FooToken],
          [Aws4(FooToken) EXCEPT !.credential = FALSE]}
         \cup {Bearer(t) : t \in RefusedTokens}]

NextAuth == Engine(AuthInputs) \/ Reject(AuthInputs)
SpecAuth == Init /\ [][NextAuth]_vars

(***************************************************************************)
(* SpecDispatch: handleRequest applied to every combination of method,     *)
(* key, query parameters and copy header.  A parameter or header is        *)
(* absent, present with the empty string, or present with a value:         *)
(* searchParams.has tells absent from present, searchParams.get and        *)
(* headers.get give null, "" or the value, and the first two are falsy.    *)
(***************************************************************************)
Presences == {"absent", "empty", "value"}

DispatchRequests ==
    [method : Methods \cup {"PATCH"},
     key : {<<>>, <<97>>},
     uploads : {"absent", "empty"},
     uploadId : Presences,
     partNumber : {"absent", "value"},
     copySource : Presences,
     authorization : {Bearer(FooToken)}]

InitDispatch ==
    /\ request \in DispatchRequests
    /\ live = TRUE
    /\ migrations = Migrations
    /\ executed = <<0, 1>>
    /\ webSocketClients = {}
    /\ sockets = [ws \in Sockets |-> NoSocket]
    /\ objects = {}
    /\ uploads = {}
    /\ parts = {}
    /\ inflight = [h \in Handlers |-> Idle]
    /\ nextUuid = 0
    /\ resp = NoResponse
    /\ lastPut = [a \in Addrs |-> NoBody]
    /\ lastPart = [p \in (1..UnknownUploadId) \X AllPartNumbers |-> NoBody]
    /\ pager = NoPager

\* handleRequest up to the call of the handler it chooses
Dispatch ==
    LET operation ==
            handleRequest(request.method, request.key,
                          request.uploads # "absent",
                          IF request.uploadId = "value" THEN 1 ELSE 0,
                          request.partNumber # "absent",
                          IF request.copySource = "value"
                          THEN SourceOf(<<98>>, <<97>>) ELSE <<>>)
    IN  /\ resp = NoResponse
        /\ resp' = [NoResponse EXCEPT !.op = operation, !.key = request.key,
                        !.status = IF operation = "NotImplemented" THEN 501 ELSE 0]
        /\ UNCHANGED <<objects, uploads, parts, inflight, nextUuid, lastPut, lastPart,
                       host, request>>

NextDispatch == Dispatch
SpecDispatch == InitDispatch /\ [][NextDispatch]_vars

(***************************************************************************)
(* Properties.                                                             *)
(***************************************************************************)
\* C1: while the body b of the latest successful PutObject of a key is in place
\* (the key was not deleted or replaced since), GetObject of the key answers 200
\* with exactly b and HeadObject answers 200 with Content-Length = len(b),
\* len(b) = 0 included.
C1_GetReturnsLastPut ==
    \A a \in Addrs :
        lastPut[a] # NoBody =>
            /\ getObject(objects, a[1], a[2], FALSE).status = 200
            /\ getObject(objects, a[1], a[2], FALSE).body = lastPut[a]
            /\ getObject(objects, a[1], a[2], TRUE).status = 200
            /\ getObject(objects, a[1], a[2], TRUE).contentLength = Len(lastPut[a])

\* A GetObject has just returned a body of more than one chunk while the other
\* key holds an empty body.
C1_Witness ==
    /\ resp.op = "GetObject" /\ resp.status = 200
    /\ Len(resp.body) > CHUNK_SIZE
    /\ lastPut[<<resp.bucket, resp.key>>] = resp.body
    /\ \E a \in Addrs : lastPut[a] = <<>>

\* C2: when CopyObject(src -> dst) answers 200, dst = src included, src and dst
\* both exist afterwards and GetObject of either returns the body src had before
\* the copy.
C2_CopyKeepsSourceAndDestination ==
    [][(resp = NoResponse /\ resp'.op = "CopyObject" /\ resp'.status = 200) =>
          LET before == getObject(objects, resp'.bucket, resp'.source, FALSE)
              src == getObject(objects', resp'.bucket, resp'.source, FALSE)
              dst == getObject(objects', resp'.bucket, resp'.key, FALSE)
          IN  /\ src.status = 200 /\ dst.status = 200
              /\ src.body = before.body /\ dst.body = before.body]_vars

\* C3: when CompleteMultipartUpload of upload U for key k answers 200, GetObject(k)
\* returns the concatenation, in ascending part number, of the bytes of the
\* latest UploadPart of each part number of U, and Content-Length is the sum of
\* the part sizes.
C3_CompleteConcatenatesParts ==
    [][(resp = NoResponse /\ resp'.op = "CompleteMultipartUpload" /\ resp'.status = 200) =>
          LET Latest(n) == lastPart[<<resp'.uploadId, n>>]
              Bytes(n) == IF Latest(n) = NoBody THEN <<>> ELSE Latest(n)
              expected == Bytes(1) \o Bytes(2)
              got == getObject(objects', resp'.bucket, resp'.key, FALSE)
          IN  /\ got.status = 200
              /\ got.body = expected
              /\ got.contentLength = Len(Bytes(1)) + Len(Bytes(2))]_vars

\* An upload completed; the object is longer than one part can be, so it was
\* put together from both part numbers.
C3_Witness ==
    /\ resp.op = "CompleteMultipartUpload" /\ resp.status = 200
    /\ getObject(objects, resp.bucket, resp.key, FALSE).contentLength > 3

\* C4: CreateMultipartUpload and UploadPart never add or change a row of the
\* objects table: the rows of a key change only in a step that answers a
\* PutObject, CopyObject, CompleteMultipartUpload or DeleteObject of that key,
\* so a key nothing has written answers 404 until the upload is completed.
C4_UploadsLeaveObjectsAlone ==
    [][\A a \in Addrs :
          RowsOf(objects', a[1], a[2]) # RowsOf(objects, a[1], a[2]) =>
              /\ resp = NoResponse
              /\ resp'.op \in {"PutObject", "CopyObject", "CompleteMultipartUpload",
                               "DeleteObject"}
              /\ resp'.bucket = a[1] /\ resp'.key = a[2]]_vars

\* A GetObject answers 404 for the key of an upload that has a part stored.
C4_Witness ==
    /\ resp.op = "GetObject" /\ resp.status = 404
    /\ \E u \in uploads :
          /\ u.bucket = resp.bucket /\ u.key = resp.key
          /\ \E r \in parts : r.upload_id = u.upload_id

C6_DeleteRemovesObject ==
    [][(resp = NoResponse /\ resp'.op = "DeleteObject") =>
          /\ resp'.status = 204
          /\ objects' = objects \ RowsOf(objects, resp'.bucket, resp'.key)
          /\ RowsOf(objects', resp'.bucket, resp'.key) = {}
          /\ getObject(objects', resp'.bucket, resp'.key, FALSE).status = 404
          /\ getObject(objects', resp'.bucket, resp'.key, FALSE).code = "NoSuchKey"
          /\ (RowsOf(objects, resp'.bucket, resp'.key) = {} => objects' = objects)]_vars

\* A DeleteObject answered 204 while the other key still holds its object.
C6_Witness ==
    /\ resp.op = "DeleteObject" /\ resp.status = 204
    /\ RowsOf(objects, resp.bucket, resp.key) = {}
    /\ objects # {}

\* C7: k and k + "/" are independent objects: a PutObject, GetObject, HeadObject
\* or DeleteObject sent to the URL of one leaves the rows of the other as they
\* are, and a listing without delimiter returns exactly those of the two that
\* exist.
C7_SlashKeysIndependent ==
    [][resp = NoResponse =>
          \A b \in Buckets, k \in {key \in Keys : ~EndsWith(key, SLASH)} :
              LET dir == k \o <<SLASH>>
              IN  /\ (resp'.op \in {"PutObject", "GetObject", "HeadObject", "DeleteObject"}
                      /\ resp'.path = PathOf(b, k))
                        => RowsOf(objects', b, dir) = RowsOf(objects, b, dir)
                  /\ (resp'.op \in {"PutObject", "GetObject", "HeadObject", "DeleteObject"}
                      /\ resp'.path = PathOf(b, dir))
                        => RowsOf(objects', b, k) = RowsOf(objects, b, k)
                  /\ (resp'.op = "ListObjectsV2" /\ resp'.bucket = b
                      /\ resp'.delimiter = <<>>)
                        => /\ resp'.status = 200
                           /\ {resp'.contents[i] : i \in 1..Len(resp'.contents)}
                                = {key \in {k, dir} : RowsOf(objects', b, key) # {}}]_vars

\* A listing without delimiter returns "a" and "a/", which hold different bodies.
C7_Witness ==
    /\ resp.op = "ListObjectsV2" /\ resp.delimiter = <<>>
    /\ resp.contents = << <<97>>, <<97, 47>> >>
    /\ lastPut[<< <<98>>, <<97>> >>] = <<1>>
    /\ lastPut[<< <<98>>, <<97, 47>> >>] = <<2, 3, 4>>

\* C8: a listing with delimiter "/" and no prefix that is not truncated returns
\* as Contents exactly the keys without a "/" and as CommonPrefixes exactly the
\* first segments, each followed by "/", of the keys that contain a "/".
C8_RootListingBySegments ==
    (/\ resp.op = "ListObjectsV2" /\ resp.status = 200
     /\ resp.delimiter = <<SLASH>> /\ resp.prefix = <<>> /\ ~resp.isTruncated) =>
        LET held == {r.key : r \in {q \in objects : q.bucket = resp.bucket
                                                      /\ q.chunk_index = 0}}
        IN  /\ {resp.contents[i] : i \in 1..Len(resp.contents)}
                 = {k \in held : IndexOf(k, SLASH) = -1}
            /\ {resp.commonPrefixes[i] : i \in 1..Len(resp.commonPrefixes)}
                 = {SubSeq(k, 1, IndexOf(k, SLASH) + 1)
                      : k \in {h \in held : IndexOf(h, SLASH) # -1}}

\* C9: for a non-empty prefix p, a listing without delimiter returns exactly the
\* stored keys that start with p.
C9_PrefixIsLiteral ==
    (/\ resp.op = "ListObjectsV2" /\ resp.status = 200
     /\ resp.delimiter = <<>> /\ resp.prefix # <<>>) =>
        LET held == {r.key : r \in {q \in objects : q.bucket = resp.bucket
                                                      /\ q.chunk_index = 0}}
        IN  {resp.contents[i] : i \in 1..Len(resp.contents)}
              = {k \in held : StartsWith(k, resp.prefix)}

C16_CompleteWithoutPartsChangesNothing ==
    [][(/\ resp = NoResponse
        /\ resp'.op = "CompleteMultipartUpload"
        /\ \E u \in uploads : u.upload_id = resp'.uploadId
        /\ ~\E r \in parts : r.upload_id = resp'.uploadId)
       => /\ resp'.code = "InvalidPart" /\ resp'.status = 400
          /\ UNCHANGED <<objects, uploads, parts>>]_vars

\* An InvalidPart answer while the destination key holds an object of two
\* chunks and the session is still there
C16_Witness ==
    /\ resp.op = "CompleteMultipartUpload" /\ resp.code = "InvalidPart"
    /\ \E u \in uploads : u.upload_id = resp.uploadId
    /\ Cardinality(RowsOf(objects, resp.bucket, resp.key)) = 2

\* C17: a CopyObject that fails validation changes no row.  A source of another
\* bucket and a source without a key are answered InvalidArgument (400), a
\* source key of the bucket without a chunk 0 is answered NoSuchKey (404); the
\* rows of the destination, as all others, are left as they were.
C17_RefusedCopyChangesNothing ==
    [][(resp = NoResponse /\ resp'.op = "CopyObject") =>
          LET header == resp'.copySource
              withoutKey == IndexOf(header, SLASH) = -1
              otherBucket == \E k \in {<<97>>, <<122>>} :
                                 header = SourceOf(<<99>>, k)
              missing == \E k \in {<<97>>, <<122>>} :
                            /\ header = SourceOf(resp'.bucket, k)
                            /\ ~\E r \in RowsOf(objects, resp'.bucket, k) :
                                   r.chunk_index = 0
          IN  /\ (withoutKey \/ otherBucket) =>
                     resp'.code = "InvalidArgument" /\ resp'.status = 400
              /\ missing => resp'.code = "NoSuchKey" /\ resp'.status = 404
              /\ (withoutKey \/ otherBucket \/ missing) =>
                     UNCHANGED <<objects, uploads, parts>>
              /\ resp'.status # 200 => UNCHANGED <<objects, uploads, parts>>]_vars

\* A copy from a key that is not stored is answered NoSuchKey while the
\* destination holds an object of two chunks
C17_Witness ==
    /\ resp.op = "CopyObject" /\ resp.code = "NoSuchKey"
    /\ resp.copySource = SourceOf(<<98>>, <<122>>)
    /\ Cardinality(RowsOf(objects, resp.bucket, resp.key)) = 2

\* C18: in every reachable state each (bucket, key) that has rows has exactly
\* one row of chunk_index 0, its chunk indices are 0, 1, ..., n-1 without a gap,
\* and the lengths of its chunks sum to the size on chunk 0, so that GetObject
\* returns exactly size bytes; whichever of PutObject, CopyObject and
\* CompleteMultipartUpload wrote it.
C18_ObjectsAreWellFormed ==
    \A a \in {<<r.bucket, r.key>> : r \in objects} :
        LET rows == RowsOf(objects, a[1], a[2])
            first == {r \in rows : r.chunk_index = 0}
            got == getObject(objects, a[1], a[2], FALSE)
        IN  /\ Cardinality(first) = 1
            /\ {r.chunk_index : r \in rows} = 0..(Cardinality(rows) - 1)
            /\ Cardinality({r.chunk_index : r \in rows}) = Cardinality(rows)
            /\ \A r \in first :
                  /\ Len(ConcatData(OrderByChunkIndex(rows))) = r.size
                  /\ got.status = 200
                  /\ got.contentLength = r.size
                  /\ Len(got.body) = r.size

\* A copy has just written a destination of two chunks
C18_Witness ==
    /\ resp.op = "CopyObject" /\ resp.status = 200
    /\ Cardinality(RowsOf(objects, resp.bucket, resp.key)) = 2
    /\ \E a \in Addrs : a[2] # resp.key /\ Cardinality(RowsOf(objects, a[1], a[2])) = 2

\* C19: an object has rows of chunk_index >= 1 only if its size exceeds
\* CHUNK_SIZE, and its chunk indices are exactly 0 .. ceil(size / CHUNK_SIZE) - 1
\* (only 0 when the size is 0), whichever of PutObject, CopyObject and
\* CompleteMultipartUpload wrote it.
C19_ChunkCountFollowsSize ==
    \A a \in {<<r.bucket, r.key>> : r \in objects} :
        LET rows == RowsOf(objects, a[1], a[2])
            size == (CHOOSE r \in rows : r.chunk_index = 0).size
            ceiling == (size + CHUNK_SIZE - 1) \div CHUNK_SIZE
            last == IF size = 0 THEN 0 ELSE ceiling - 1
        IN  /\ (\E r \in rows : r.chunk_index >= 1) => size > CHUNK_SIZE
            /\ {r.chunk_index : r \in rows} = 0..last

\* C14: across any number of constructions of the object every migration
\* index 0 .. N-1 is executed exactly once and in ascending order; a
\* construction that finds the maximum recorded version m runs only the
\* migrations of an index above m; _migrations ends holding exactly 0 .. N-1;
\* and all of it before any request is served.
C14_MigrationsRunOnce ==
    /\ [](/\ \A i \in 1..Len(executed) : executed[i] = i - 1
          /\ migrations = {executed[i] : i \in 1..Len(executed)}
          /\ live => migrations = Migrations /\ Len(executed) = MigrationCount
          /\ (resp # NoResponse \/ \E h \in Handlers : inflight[h] # Idle) =>
                 live /\ migrations = Migrations)
    /\ [][(~live /\ live') =>
             /\ \A i \in 1..Len(executed') :
                   i > Len(executed) =>
                       \A m \in migrations : executed'[i] > m
             /\ \A i \in 1..Len(executed) : executed'[i] = executed[i]
             /\ migrations' = Migrations]_vars

\* The object is constructed, both migrations are recorded, and an object a
\* request stored is read back
C14_Witness ==
    /\ live /\ resp.op = "GetObject" /\ resp.status = 200
    /\ executed = <<0, 1>>
    /\ \E a \in Addrs : lastPut[a] # NoBody

\* C20: once the object is constructed, depth and parent on every chunk 0 equal
\* computeDepth(key) and computeParent(key) and every chunk of index >= 1 has
\* null depth and parent: for the rows written by PutObject, CopyObject (by the
\* destination key) and CompleteMultipartUpload, and for the chunk-0 rows that
\* were there before migration 1 ran.
C20_DepthAndParentFollowKey ==
    live =>
        \A r \in objects :
            IF r.chunk_index = 0
            THEN r.depth = computeDepth(r.key) /\ r.parent = computeParent(r.key)
            ELSE r.depth = NullDepth /\ r.parent = NullParent

\* Constructed on a store whose rows come from before migration 1: no request
\* has written the key "a/" of depth 1, and its two rows are there
C20_Witness ==
    /\ live
    /\ nextUuid = 0 /\ \A a \in Addrs : lastPut[a] = NoBody
    /\ \A a \in Addrs : Cardinality(RowsOf(objects, a[1], a[2])) = 2
    /\ \E r \in objects : r.chunk_index = 0 /\ r.depth = 1

\* C11: after every HTTP request, whatever its outcome (success, 401 or 403 from
\* authentication, 404 for a missing bucket, 501, 500, or the token "foo"), one
\* event carrying the method, the path and the status of the response returned
\* is sent to every current subscriber.
C11_EveryRequestIsBroadcast ==
    [][(resp = NoResponse /\ resp' # NoResponse /\ resp'.op # "WebSocketUpgrade") =>
          \A ws \in webSocketClients :
              sockets[ws].state = "open" =>
                  sockets'[ws].outbox =
                      Append(sockets[ws].outbox, EventOf(request'.method, resp'))]_vars

\* C12: broadcasting is best-effort.  When the event of a request is broadcast,
\* a subscriber whose send throws is removed from the subscriber set, every
\* other subscriber is still sent the same event, and the response returned
\* is the handler's response, the one whose status the event carries.
C12_BroadcastIsBestEffort ==
    [][(/\ resp = NoResponse /\ resp' # NoResponse
        /\ resp'.op \notin {"fetch", "WebSocketUpgrade"}
        /\ request'.authorization = Bearer(JwtFor(<<98>>))) =>
          /\ \A ws \in webSocketClients :
                IF sockets[ws].state = "open"
                THEN /\ ws \in webSocketClients'
                     /\ sockets'[ws].outbox =
                            Append(sockets[ws].outbox, EventOf(request'.method, resp'))
                ELSE /\ ws \notin webSocketClients'
                     /\ sockets'[ws] = sockets[ws]
          /\ webSocketClients' \subseteq webSocketClients
          /\ resp'.code # "UncaughtException"]_vars

\* A request was answered 200 while one subscriber's connection had ended and
\* another's was open: the first is no longer a subscriber, the second has
\* been sent the event
C12_Witness ==
    /\ resp.op = "PutObject" /\ resp.status = 200
    /\ \E gone \in Sockets, ws \in Sockets :
          /\ sockets[gone].state = "closed" /\ gone \notin webSocketClients
          /\ sockets[ws].state = "open" /\ ws \in webSocketClients
          /\ sockets[ws].outbox = <<EventOf("PUT", resp)>>

\* C13: no storage operation is dispatched, and no row is read or changed, unless
\* the request carries the token "foo" or a token that verifies and whose
\* bucket claim equals the bucket of the URL.  A missing header, an unsupported
\* scheme, a malformed token and a bad signature are answered 401; a verified
\* token for another bucket is answered 403.
C13_OnlyAuthorizedRequestsAreServed ==
    [][(resp = NoResponse /\ resp' # NoResponse) =>
          LET authorization == request'.authorization
              token == authorization.token
              carried == \/ authorization.scheme = "Bearer"
                         \/ /\ authorization.scheme = "AWS4-HMAC-SHA256"
                            /\ authorization.credential
              verifies == token.parts = 3 /\ verifyToken(token)
              authorized == carried /\ (\/ token.text = "foo"
                                        \/ verifies /\ token.bucket = resp'.bucket)
          IN  /\ ~authorized =>
                    /\ resp'.op = "fetch"
                    /\ UNCHANGED <<objects, uploads, parts>>
              /\ (~carried \/ (token.text # "foo" /\ ~verifies)) =>
                    resp'.status = 401
              /\ (carried /\ token.text # "foo" /\ verifies
                    /\ token.bucket # resp'.bucket) =>
                    resp'.status = 403]_vars

\* C15: handleRequest maps every combination of method, key present or empty,
\* presence of the query parameters uploads, uploadId and partNumber, and
\* presence of the header x-amz-copy-source to the first matching row of the
\* dispatch table, and to NotImplemented (501) when no row matches.  So a PUT
\* with uploadId and partNumber is an UploadPart even with the copy header, a
\* GET or HEAD with a key is GetObject or HeadObject whatever the query, and a
\* PUT, POST or DELETE with an empty key is NotImplemented.
C15_DispatchFollowsTable ==
    resp # NoResponse =>
          LET present(p) == p # "absent"
              withKey == request.key # <<>>
              method == request.method
              firstMatch ==
                  IF method = "HEAD" /\ ~withKey THEN "headBucket"
                  ELSE IF method = "GET" /\ ~withKey /\ present(request.uploads)
                       THEN "listMultipartUploads"
                  ELSE IF method = "GET" /\ ~withKey THEN "listObjectsV2"
                  ELSE IF method \in {"GET", "HEAD"} /\ withKey THEN "getObject"
                  ELSE IF method = "POST" /\ withKey /\ present(request.uploads)
                       THEN "createMultipartUpload"
                  ELSE IF method = "PUT" /\ withKey /\ present(request.uploadId)
                          /\ present(request.partNumber)
                       THEN "uploadPart"
                  ELSE IF method = "POST" /\ withKey /\ present(request.uploadId)
                       THEN "completeMultipartUpload"
                  ELSE IF method = "DELETE" /\ withKey /\ present(request.uploadId)
                       THEN "abortMultipartUpload"
                  ELSE IF method = "PUT" /\ withKey /\ present(request.copySource)
                       THEN "copyObject"
                  ELSE IF method = "PUT" /\ withKey THEN "putObject"
                  ELSE IF method = "DELETE" /\ withKey THEN "deleteObject"
                  ELSE "NotImplemented"
          IN  /\ resp.op = firstMatch
              /\ resp.status = 501 <=> firstMatch = "NotImplemented"

\* C29: in every reachable state every row of multipart_parts carries an
\* upload_id for which multipart_uploads has a row.  This covers an UploadPart
\* naming an id that was never created, an UploadPart after the session was
\* completed or aborted, and an UploadPart suspended on its body while the
\* completion or the abort of its session runs.
C29_PartsBelongToSessions ==
    \A r \in parts : \E u \in uploads : u.upload_id = r.upload_id

\* C30: CompleteMultipartUpload succeeds at most once for an upload id.  A
\* completion answers 200 only for an id that has a session row, and that
\* completion removes the session row and every part row of the id; no id that
\* was handed out gets a session row again.  Every completion of an id without
\* a session row, so every completion after the successful one, answers
\* NoSuchUpload (404) and leaves the objects, the sessions and the parts as
\* they were.
C30_CompleteSucceedsAtMostOnce ==
    [][/\ (resp = NoResponse /\ resp'.op = "CompleteMultipartUpload") =>
            LET uploadId == resp'.uploadId
                open == \E u \in uploads : u.upload_id = uploadId
            IN  /\ resp'.status = 200 =>
                      /\ open
                      /\ \A u \in uploads' : u.upload_id # uploadId
                      /\ \A r \in parts' : r.upload_id # uploadId
                      /\ \A u \in uploads : u.upload_id # uploadId => u \in uploads'
                /\ ~open =>
                      /\ resp'.code = "NoSuchUpload"
                      /\ resp'.status = 404
                      /\ UNCHANGED <<objects, uploads, parts>>
       /\ \A u \in uploads' \ uploads : u.upload_id > nextUuid]_vars

\* A completion of an id that was handed out is answered NoSuchUpload while the
\* object an earlier completion assembled is stored.
C30_Witness ==
    /\ resp.op = "CompleteMultipartUpload"
    /\ resp.code = "NoSuchUpload"
    /\ resp.uploadId \in 1..nextUuid
    /\ \E r \in objects :
          r.chunk_index = 0 /\ r.etag \in {SyntheticETag(n) : n \in AllPartNumbers}

\* C28: for every set of stored keys, among them directory markers (keys
\* ending in "/") and directories holding nothing but sub-directories, and
\* every prefix, the un-truncated answer of the "/" fast path has the same
\* Contents and the same CommonPrefixes as the generic delimiter procedure
\* run with the delimiter "/".
C28_FastPathAgreesWithGeneric ==
    (/\ resp.op = "ListObjectsV2" /\ resp.status = 200
     /\ resp.delimiter = <<SLASH>> /\ ~resp.isTruncated) =>
        LET generic == ListDelimited(objects, resp.bucket, resp.prefix, <<SLASH>>,
                                     DefaultMaxKeys, <<>>)
            Range(s) == {s[i] : i \in 1..Len(s)}
        IN  /\ ~generic.failed /\ ~generic.isTruncated
            /\ Range(resp.contents) = Range(generic.contents)
            /\ Range(resp.commonPrefixes) = Range(generic.commonPrefixes)

(***************************************************************************)
(* SpecPages: a client lists a bucket page by page, sending the token of   *)
(* each page with the next request, while nothing is written.              *)
(***************************************************************************)
\* How many pages the client asks for at most
MaxPages == 8

\* The keys "a", "a/", "a/b", "a/a/b", "a_b", "a_c", "b"
PageKeys ==
    {<<97>>, <<97, 47>>, <<97, 47, 98>>, <<97, 47, 97, 47, 98>>,
     <<97, 95, 98>>, <<97, 95, 99>>, <<98>>}

\* The prefixes "", "a", "a/"; no delimiter, "/" and "_"; max-keys 0, 1 and 2
PageInputs ==
    [bucketPaths |-> {<<SLASH, 98>>},
     prefixes |-> {<<>>, <<97>>, <<97, 47>>},
     delimiters |-> {<<>>, <<SLASH>>, <<95>>},
     maxKeys |-> {0, 1, 2},
     authorizations |-> {Bearer(JwtFor(<<98>>))}]

InitPages ==
    /\ Constructed
    /\ objects \in {UNION {PutObjectRows(<<98>>, k, <<1>>, ContentTypeOf("")) : k \in held}
                       : held \in SUBSET PageKeys}
    /\ uploads = {}
    /\ parts = {}
    /\ inflight = [h \in Handlers |-> Idle]
    /\ nextUuid = 0
    /\ resp = NoResponse
    /\ lastPut = [a \in Addrs |-> NoBody]
    /\ lastPart = [p \in (1..UnknownUploadId) \X AllPartNumbers |-> NoBody]
    /\ pager \in {[NoPager EXCEPT !.state = "open", !.op = "ListObjectsV2",
                                  !.path = path, !.prefix = prefix,
                                  !.delimiter = delimiter, !.max = maxKeys]
                     : path \in PageInputs.bucketPaths, prefix \in PageInputs.prefixes,
                       delimiter \in PageInputs.delimiters,
                       maxKeys \in PageInputs.maxKeys}

\* listObjectsV2 for the request of the client: its parameters, and as
\* continuation-token the token of the page read last (none on the first page)
ListObjectsV2Page(in) ==
    LET bucket == FirstPathPart(pager.path)
        key == ExtractKey(pager.path, bucket)
    IN  /\ resp = NoResponse
        /\ pager.state = "open" /\ pager.op = "ListObjectsV2"
        /\ pager.pages < MaxPages
        /\ handleRequest("GET", key, FALSE, 0, FALSE, <<>>) = "listObjectsV2"
        /\ resp' = listObjectsV2(objects, bucket, pager.prefix, pager.delimiter,
                                 pager.max, <<>>, pager.marker)
        /\ UNCHANGED <<objects, uploads, parts, inflight, nextUuid, lastPut, lastPart>>
        /\ Fetch(in, "GET", bucket)

\* The client reads the page: it keeps what the page lists and, when the page
\* says IsTruncated and names a token, goes on from that token.
ReadPage ==
    /\ resp # NoResponse
    /\ resp.op = "ListObjectsV2"
    /\ pager' = [pager EXCEPT
                    !.contents = @ \o resp.contents,
                    !.commonPrefixes = @ \o resp.commonPrefixes,
                    !.pages = @ + 1,
                    !.marker = resp.nextContinuationToken,
                    !.state = IF resp.status # 200 THEN "failed"
                              ELSE IF ~resp.isTruncated THEN "done"
                              ELSE IF resp.nextContinuationToken = <<>> THEN "stuck"
                              ELSE "open"]
    /\ resp' = NoResponse
    /\ request' = NoRequest
    /\ UNCHANGED <<objects, uploads, parts, inflight, nextUuid, lastPut, lastPart,
                   live, migrations, executed, webSocketClients, sockets>>

NextPages == ListObjectsV2Page(PageInputs) \/ ReadPage
SpecPages == InitPages /\ [][NextPages]_vars

\* The keys of the bucket of the client that start with its prefix, in ascending
\* order of their code units
PagerMatchingKeys ==
    OrderByText({r.key : r \in {q \in objects :
                                  /\ q.bucket = FirstPathPart(pager.path)
                                  /\ q.chunk_index = 0
                                  /\ StartsWith(q.key, pager.prefix)}})

\* C21: without delimiter, every page of ListObjectsV2 holds the matching keys
\* beyond its marker in ascending key order, at most max-keys of them, says
\* IsTruncated exactly when more matching keys exist and, when it is truncated
\* and holds a key, names its last key as NextContinuationToken.  With no
\* write in between, a client that follows the tokens until a page is not
\* truncated has read every matching key exactly once; with max-keys >= 1 it
\* always gets there, within as many pages as there are keys (one page when
\* there is none).
C21_PlainListingPagesThroughAllKeys ==
    /\ [](pager.delimiter = <<>> =>
            /\ pager.state = "done" =>
                  /\ pager.contents = PagerMatchingKeys
                  /\ pager.commonPrefixes = <<>>
            /\ pager.max >= 1 =>
                  /\ pager.state \in {"open", "done"}
                  /\ pager.pages <= IF PagerMatchingKeys = <<>> THEN 1
                                    ELSE Len(PagerMatchingKeys)
                  /\ pager.state = "open" => pager.pages < MaxPages)
    /\ [][(resp = NoResponse /\ resp'.op = "ListObjectsV2" /\ pager.delimiter = <<>>) =>
            LET After(k) == pager.marker = <<>> \/ StrLess(pager.marker, k)
                beyond == SelectSeq(PagerMatchingKeys, After)
                count == Min(pager.max, Len(beyond))
            IN  /\ resp'.status = 200
                /\ resp'.contents = SubSeq(beyond, 1, count)
                /\ resp'.commonPrefixes = <<>>
                /\ resp'.isTruncated <=> Len(beyond) > pager.max
                /\ (resp'.isTruncated /\ count > 0) =>
                      resp'.nextContinuationToken = beyond[count]]_vars

\* The client has read a second page of a listing without delimiter, after a
\* truncated first page, and that page was the last.
C21_Witness ==
    /\ pager.op = "ListObjectsV2" /\ pager.delimiter = <<>>
    /\ pager.state = "done"
    /\ pager.pages >= 2
    /\ Len(pager.contents) >= 3

\* C25: on the "/" fast path with max-keys >= 1 and no write in between, every
\* truncated page names a token strictly greater than the marker it was asked
\* with, so that a client following the tokens comes to an end; and the pages
\* it has read then hold every direct content key and every common prefix of
\* the un-truncated answer exactly once, for the empty and for non-empty
\* prefixes.
C25_SlashListingPagesThroughAllItems ==
    /\ []((pager.delimiter = <<SLASH>> /\ pager.max >= 1) =>
            /\ pager.state \in {"open", "done"}
            /\ pager.state = "done" =>
                  LET whole == ListSlash(objects, FirstPathPart(pager.path),
                                         pager.prefix, DefaultMaxKeys, <<>>)
                      Range(s) == {s[i] : i \in 1..Len(s)}
                      Once(s) == \A i, j \in 1..Len(s) : s[i] = s[j] => i = j
                  IN  /\ Once(pager.contents) /\ Once(pager.commonPrefixes)
                      /\ Range(pager.contents) = Range(whole.contents)
                      /\ Range(pager.commonPrefixes) = Range(whole.commonPrefixes))
    /\ [][(/\ resp = NoResponse /\ resp'.op = "ListObjectsV2"
           /\ pager.delimiter = <<SLASH>> /\ pager.max >= 1
           /\ resp'.isTruncated) =>
              StrLess(pager.marker, resp'.nextContinuationToken)]_vars

\* What the generic delimiter procedure makes of one key: the common prefix up
\* to and including the first delimiter of its tail, or the key as content
PagerItemOf(key) ==
    LET keyAfterPrefix == SliceFrom(key, Len(pager.prefix))
        delimiterIndex == IndexOfString(keyAfterPrefix, pager.delimiter)
    IN  IF delimiterIndex >= 0
        THEN [type |-> "prefix",
              value |-> pager.prefix \o SubSeq(keyAfterPrefix, 1, delimiterIndex + 1)]
        ELSE [type |-> "content", value |-> key]

\* C26: with a delimiter other than "/" and max-keys >= 1, every key whose
\* tail after the prefix holds the delimiter is reported as the common prefix
\* that ends with the first delimiter, once, every other key as content, and
\* the token of a truncated page lies beyond every key the page has walked:
\* no key greater than the token belongs to an item of the page.  A client
\* following the tokens with no write in between has then read each common
\* prefix and each content key exactly once.
C26_DelimitedListingPagesThroughAllItems ==
    /\ []((pager.delimiter \notin {<<>>, <<SLASH>>} /\ pager.max >= 1) =>
            /\ pager.state \in {"open", "done"}
            /\ pager.state = "done" =>
                  LET keys == {PagerMatchingKeys[i] : i \in 1..Len(PagerMatchingKeys)}
                      Range(s) == {s[i] : i \in 1..Len(s)}
                      Once(s) == \A i, j \in 1..Len(s) : s[i] = s[j] => i = j
                      Values(kind) == {PagerItemOf(k).value :
                                          k \in {h \in keys : PagerItemOf(h).type = kind}}
                  IN  /\ Once(pager.contents) /\ Once(pager.commonPrefixes)
                      /\ Range(pager.contents) = Values("content")
                      /\ Range(pager.commonPrefixes) = Values("prefix"))
    /\ [][(/\ resp = NoResponse /\ resp'.op = "ListObjectsV2"
           /\ pager.delimiter \notin {<<>>, <<SLASH>>} /\ pager.max >= 1
           /\ resp'.isTruncated) =>
              \A i \in 1..Len(PagerMatchingKeys) :
                  LET key == PagerMatchingKeys[i]
                      item == PagerItemOf(key)
                      listed == IF item.type = "prefix" THEN resp'.commonPrefixes
                                ELSE resp'.contents
                  IN  StrLess(resp'.nextContinuationToken, key) =>
                         \A j \in 1..Len(listed) : listed[j] # item.value]_vars

\* C27: on the three listing paths (no delimiter, "/", another delimiter) and
\* for every max-keys >= 0, a page is answered with IsTruncated true exactly
\* when some matching item beyond its marker, content key or common prefix, is
\* not on the page; a page with IsTruncated false holds every matching item
\* beyond the marker; and NextContinuationToken is there if and only if
\* IsTruncated is true.
C27_TruncationIsExact ==
    [][(resp = NoResponse /\ resp'.op = "ListObjectsV2") =>
          LET After(k) == pager.marker = <<>> \/ StrLess(pager.marker, k)
              beyond == SelectSeq(PagerMatchingKeys, After)
              ItemOf(k) == IF pager.delimiter = <<>> THEN [type |-> "content", value |-> k]
                           ELSE PagerItemOf(k)
              items == {ItemOf(beyond[i]) : i \in 1..Len(beyond)}
              returned == {[type |-> "content", value |-> resp'.contents[i]]
                              : i \in 1..Len(resp'.contents)}
                          \cup {[type |-> "prefix", value |-> resp'.commonPrefixes[i]]
                                   : i \in 1..Len(resp'.commonPrefixes)}
          IN  /\ resp'.status = 200
              /\ resp'.isTruncated <=> items \ returned # {}
              /\ ~resp'.isTruncated => items \subseteq returned
              /\ resp'.nextContinuationToken # <<>> <=> resp'.isTruncated]_vars

(***************************************************************************)
(* listMultipartUploads, and SpecUploads: a client lists the sessions of a *)
(* bucket page by page while nothing is written.  An upload id is a        *)
(* number; 0 stands for an absent (empty) upload-id-marker.                *)
(***************************************************************************)
\* ORDER BY key, upload_id
RECURSIVE OrderByKeyUploadId(_)
OrderByKeyUploadId(rows) ==
    IF rows = {} THEN <<>>
    ELSE LET first == CHOOSE r \in rows : \A q \in rows :
                          \/ StrLess(r.key, q.key)
                          \/ (r.key = q.key /\ r.upload_id <= q.upload_id)
         IN  <<first>> \o OrderByKeyUploadId(rows \ {first})

\* Faulty variant: the upload-id-marker is ignored
listMultipartUploadsByKeyMarkerOnly(us, bucket, prefix, keyMarker, uploadIdMarker, maxUploads) ==
    LET rows == Limit(OrderByKeyUploadId(
                    {u \in us : /\ u.bucket = bucket
                                /\ InPrefixRange(u.key, prefix)
                                /\ keyMarker # <<>> => StrLess(keyMarker, u.key)}),
                      maxUploads + 1)
        isTruncated == Len(rows) > maxUploads
        kept == Limit(rows, maxUploads)
        marked == isTruncated /\ kept # <<>>
    IN  [NoResponse EXCEPT !.op = "ListMultipartUploads", !.status = 200,
             !.bucket = bucket, !.prefix = prefix,
             !.uploads = [i \in 1..Len(kept) |->
                             [key |-> kept[i].key, upload_id |-> kept[i].upload_id]],
             !.isTruncated = isTruncated,
             !.nextKeyMarker = IF marked THEN kept[Len(kept)].key ELSE <<>>,
             !.nextUploadIdMarker = IF marked THEN kept[Len(kept)].upload_id ELSE 0]

listMultipartUploads(us, bucket, prefix, keyMarker, uploadIdMarker, maxUploads) ==
    LET Beyond(u) ==
            IF keyMarker = <<>> THEN TRUE
            ELSE IF uploadIdMarker # 0
                 THEN \/ StrLess(keyMarker, u.key)
                      \/ (u.key = keyMarker /\ u.upload_id > uploadIdMarker)
            ELSE StrLess(keyMarker, u.key)
        rows == Limit(OrderByKeyUploadId(
                    {u \in us : /\ u.bucket = bucket
                                /\ InPrefixRange(u.key, prefix)
                                /\ Beyond(u)}),
                      maxUploads + 1)
        isTruncated == Len(rows) > maxUploads
        kept == Limit(rows, maxUploads)
        marked == isTruncated /\ kept # <<>>
    IN  [NoResponse EXCEPT !.op = "ListMultipartUploads", !.status = 200,
             !.bucket = bucket, !.prefix = prefix,
             !.uploads = [i \in 1..Len(kept) |->
                             [key |-> kept[i].key, upload_id |-> kept[i].upload_id]],
             !.isTruncated = isTruncated,
             !.nextKeyMarker = IF marked THEN kept[Len(kept)].key ELSE <<>>,
             !.nextUploadIdMarker = IF marked THEN kept[Len(kept)].upload_id ELSE 0]

\* How many sessions are open at most when the listing starts, and their ids
MaxSessions == 3
SessionIds == 1..MaxSessions

\* Where a session may be: at "a", "a/b" or "b" of bucket "b", or at "a" of
\* bucket "c"
SessionAddrs ==
    {<<<<98>>, <<97>>>>, <<<<98>>, <<97, 47, 98>>>>, <<<<98>>, <<98>>>>,
     <<<<99>>, <<97>>>>}

\* The prefixes "" and "a"; max-uploads 0, 1 and 2
UploadsInputs ==
    [bucketPaths |-> {<<SLASH, 98>>},
     prefixes |-> {<<>>, <<97>>},
     maxKeys |-> {0, 1, 2},
     authorizations |-> {Bearer(JwtFor(<<98>>))}]

InitUploads ==
    /\ Constructed
    /\ objects = {}
    /\ uploads \in {{[upload_id |-> id, bucket |-> at[id][1], key |-> at[id][2],
                      content_type |-> ContentTypeOf("")] : id \in DOMAIN at}
                       : at \in UNION {[ids -> SessionAddrs] : ids \in SUBSET SessionIds}}
    /\ parts = {}
    /\ inflight = [h \in Handlers |-> Idle]
    /\ nextUuid = Cardinality(SessionIds)
    /\ resp = NoResponse
    /\ lastPut = [a \in Addrs |-> NoBody]
    /\ lastPart = [p \in (1..UnknownUploadId) \X AllPartNumbers |-> NoBody]
    /\ pager \in {[NoPager EXCEPT !.state = "open", !.op = "ListMultipartUploads",
                                  !.path = path, !.prefix = prefix, !.max = maxUploads]
                     : path \in UploadsInputs.bucketPaths,
                       prefix \in UploadsInputs.prefixes,
                       maxUploads \in UploadsInputs.maxKeys}

\* listMultipartUploads for the request of the client, with the markers of the
\* page read last as key-marker and upload-id-marker
ListMultipartUploads(in) ==
    LET bucket == FirstPathPart(pager.path)
        key == ExtractKey(pager.path, bucket)
    IN  /\ resp = NoResponse
        /\ pager.state = "open" /\ pager.op = "ListMultipartUploads"
        /\ pager.pages < MaxPages
        /\ handleRequest("GET", key, TRUE, 0, FALSE, <<>>) = "listMultipartUploads"
        /\ resp' = listMultipartUploads(uploads, bucket, pager.prefix, pager.marker,
                                        pager.uploadIdMarker, pager.max)
        /\ UNCHANGED <<objects, uploads, parts, inflight, nextUuid, lastPut, lastPart>>
        /\ Fetch(in, "GET", bucket)

\* The client reads the page and, when it says IsTruncated and names markers,
\* goes on from them.
ReadUploadsPage ==
    /\ resp # NoResponse
    /\ resp.op = "ListMultipartUploads"
    /\ pager' = [pager EXCEPT
                    !.sessions = @ \o resp.uploads,
                    !.pages = @ + 1,
                    !.marker = resp.nextKeyMarker,
                    !.uploadIdMarker = resp.nextUploadIdMarker,
                    !.state = IF resp.status # 200 THEN "failed"
                              ELSE IF ~resp.isTruncated THEN "done"
                              ELSE IF resp.nextKeyMarker = <<>> THEN "stuck"
                              ELSE "open"]
    /\ resp' = NoResponse
    /\ request' = NoRequest
    /\ UNCHANGED <<objects, uploads, parts, inflight, nextUuid, lastPut, lastPart,
                   live, migrations, executed, webSocketClients, sockets>>

NextUploads == ListMultipartUploads(UploadsInputs) \/ ReadUploadsPage
SpecUploads == InitUploads /\ [][NextUploads]_vars

\* The sessions of the bucket of the client whose key starts with its prefix,
\* as (key, upload id), ordered by key and then by upload id
PagerMatchingSessions ==
    LET rows == OrderByKeyUploadId({u \in uploads :
                                      /\ u.bucket = FirstPathPart(pager.path)
                                      /\ StartsWith(u.key, pager.prefix)})
    IN  [i \in 1..Len(rows) |-> [key |-> rows[i].key, upload_id |-> rows[i].upload_id]]

\* C22: every page of ListMultipartUploads holds sessions of the bucket only,
\* open ones whose key starts with the prefix: the next max-uploads of them
\* beyond the markers in the order of (key, upload_id), with IsTruncated exactly
\* when more exist and the last session of the page as NextKeyMarker and
\* NextUploadIdMarker.  With no write in between, a client following the markers
\* until a page is not truncated has read every such session exactly once, also
\* when several sessions share one key; with max-uploads >= 1 it gets there
\* within as many pages as there are sessions (one page when there is none).
C22_UploadsListingPagesThroughAllSessions ==
    /\ [](pager.op = "ListMultipartUploads" =>
            /\ pager.state = "done" => pager.sessions = PagerMatchingSessions
            /\ pager.max >= 1 =>
                  /\ pager.state \in {"open", "done"}
                  /\ pager.pages <= IF PagerMatchingSessions = <<>> THEN 1
                                    ELSE Len(PagerMatchingSessions)
                  /\ pager.state = "open" => pager.pages < MaxPages)
    /\ [][(resp = NoResponse /\ resp'.op = "ListMultipartUploads") =>
            LET After(u) ==
                    \/ pager.marker = <<>>
                    \/ StrLess(pager.marker, u.key)
                    \/ (u.key = pager.marker /\ u.upload_id > pager.uploadIdMarker)
                beyond == SelectSeq(PagerMatchingSessions, After)
                count == Min(pager.max, Len(beyond))
            IN  /\ resp'.status = 200
                /\ resp'.uploads = SubSeq(beyond, 1, count)
                /\ resp'.isTruncated <=> Len(beyond) > pager.max
                /\ (resp'.isTruncated /\ count > 0) =>
                      /\ resp'.nextKeyMarker = beyond[count].key
                      /\ resp'.nextUploadIdMarker = beyond[count].upload_id]_vars

\* The client has come to the end after two pages or more, among what it read
\* are two sessions that share one key, and another bucket holds a session too.
C22_Witness ==
    /\ pager.op = "ListMultipartUploads"
    /\ pager.state = "done"
    /\ pager.pages >= 2
    /\ \E i, j \in 1..Len(pager.sessions) :
          i # j /\ pager.sessions[i].key = pager.sessions[j].key
    /\ \E u \in uploads : u.bucket # FirstPathPart(pager.path)

(***************************************************************************)
(* SpecFault: the handlers that replace an object, with a statement of     *)
(* theirs throwing or the client going away.  The statements of a handler  *)
(* run without await and without a transaction of their own; the catch     *)
(* block answers InternalError and the statements that ran stay.           *)
(***************************************************************************)
\* The rows after the first `done` statements of DELETE of the key, INSERT of
\* chunk 0, INSERT of chunk 1, ...: the statement after them threw.
StatementsBeforeThrow(objs, bucket, key, rows, done) ==
    IF done = 0 THEN objs
    ELSE DeleteObjectRows(objs, bucket, key) \cup {r \in rows : r.chunk_index < done - 1}

\* putObject after the digest, with sql.exec throwing at one of its statements
PutObjectThrows(in) ==
    \E h \in in.handlers, data \in in.bodies, header \in in.headers :
        LET bucket == inflight[h].bucket
            key == inflight[h].key
            rows == PutObjectRows(bucket, key, data, ContentTypeOf(header))
        IN  \E done \in 0..Cardinality(rows) :
               /\ resp = NoResponse
               /\ inflight[h].op = "PutObject"
               /\ objects' = StatementsBeforeThrow(objects, bucket, key, rows, done)
               /\ inflight' = [inflight EXCEPT ![h] = Idle]
               /\ resp' = [errorResponse("PutObject", bucket, key, "InternalError", 500)
                              EXCEPT !.reqBody = data, !.path = inflight[h].path]
               /\ lastPut' = IF done = 0 THEN lastPut
                             ELSE [lastPut EXCEPT ![<<bucket, key>>] = NoBody]
               /\ UNCHANGED <<uploads, parts, nextUuid, lastPart>>
               /\ Return(inflight[h].authorization, "PUT", bucket)

\* putObject with the client gone while the body is read: request.arrayBuffer()
\* rejects before any statement has run
PutObjectDisconnects(in) ==
    \E h \in in.handlers :
        LET bucket == inflight[h].bucket
            key == inflight[h].key
        IN  /\ resp = NoResponse
            /\ inflight[h].op = "PutObject"
            /\ inflight' = [inflight EXCEPT ![h] = Idle]
            /\ resp' = [errorResponse("PutObject", bucket, key, "InternalError", 500)
                           EXCEPT !.path = inflight[h].path]
            /\ UNCHANGED <<objects, uploads, parts, nextUuid, lastPut, lastPart>>
            /\ Return(inflight[h].authorization, "PUT", bucket)

\* copyObject of a stored source of the bucket, with sql.exec throwing at the
\* DELETE of the destination or at one of the INSERTs
CopyObjectThrows(in) ==
    \E path \in in.paths, copySource \in in.sources :
        LET bucket == FirstPathPart(path)
            destKey == ExtractKey(path, bucket)
            sourcePath == IF StartsWith(copySource, <<SLASH>>) THEN Tail(copySource)
                          ELSE copySource
            slashIndex == IndexOf(sourcePath, SLASH)
            sourceBucket == SubSeq(sourcePath, 1, slashIndex)
            sourceKey == decodeURIComponent(SliceFrom(sourcePath, slashIndex + 1))
            found == \E r \in RowsOf(objects, sourceBucket, sourceKey) : r.chunk_index = 0
            rows == RowsOf(copyObjectRows(objects, bucket, destKey, sourceBucket, sourceKey),
                           bucket, destKey)
        IN  /\ resp = NoResponse
            /\ handleRequest("PUT", destKey, FALSE, 0, FALSE, copySource) = "copyObject"
            /\ slashIndex # -1 /\ sourceBucket = bucket /\ found
            /\ \E done \in 0..Cardinality(rows) :
                  /\ objects' = StatementsBeforeThrow(objects, bucket, destKey, rows, done)
                  /\ lastPut' = IF done = 0 THEN lastPut
                                ELSE [lastPut EXCEPT ![<<bucket, destKey>>] = NoBody]
            /\ resp' = [errorResponse("CopyObject", bucket, destKey, "InternalError", 500)
                           EXCEPT !.source = sourceKey, !.copySource = copySource]
            /\ UNCHANGED <<uploads, parts, inflight, nextUuid, lastPart>>
            /\ Fetch(in, "PUT", bucket)

\* completeMultipartUpload of a session with parts, with sql.exec throwing at
\* the DELETE of the object or at one of the INSERTs; the clean-up is not reached
CompleteMultipartUploadThrows(in) ==
    \E path \in in.paths, uploadId \in 1..nextUuid :
        LET bucket == FirstPathPart(path)
            key == ExtractKey(path, bucket)
            session == {u \in uploads : u.upload_id = uploadId}
            contentType == (CHOOSE u \in session : TRUE).content_type
            partList == OrderByPartNumber(
                            {r \in parts : r.upload_id = uploadId /\ r.chunk_index = 0})
            rows == CompletedRows(bucket, key, PartChunks(parts, uploadId, partList),
                                  SumSizes(partList), SyntheticETag(Len(partList)),
                                  contentType)
        IN  /\ resp = NoResponse
            /\ handleRequest("POST", key, FALSE, uploadId, FALSE, <<>>)
                   = "completeMultipartUpload"
            /\ session # {} /\ partList # <<>>
            /\ \E done \in 0..Cardinality(rows) :
                  /\ objects' = StatementsBeforeThrow(objects, bucket, key, rows, done)
                  /\ lastPut' = IF done = 0 THEN lastPut
                                ELSE [lastPut EXCEPT ![<<bucket, key>>] = NoBody]
            /\ resp' = [errorResponse("CompleteMultipartUpload", bucket, key,
                                      "InternalError", 500)
                           EXCEPT !.uploadId = uploadId]
            /\ UNCHANGED <<uploads, parts, inflight, nextUuid, lastPart>>
            /\ Fetch(in, "POST", bucket)

\* FaultInputs: one key, a body and a part of two chunks each
FaultInputs ==
    [MultipartInputs EXCEPT !.bodies = {<<2, 3, 4>>}, !.partNumbers = {1},
                            !.partBodies = {<<5, 6, 7>>}]

NextFault ==
    \/ Engine(FaultInputs)
    \/ PutObjectThrows(FaultInputs)
    \/ PutObjectDisconnects(FaultInputs)
    \/ CopyObjectThrows(FaultInputs)
    \/ CompleteMultipartUploadThrows(FaultInputs)
SpecFault == Init /\ [][NextFault]_vars

\* C23: when PutObject, CopyObject or CompleteMultipartUpload fails part-way,
\* because a storage statement throws and the handler answers InternalError
\* (500) or because the client goes away, the rows stored for the key are
\* afterwards exactly the prior object or exactly a complete new object: never
\* the prior object deleted with nothing in its place, never a chunk sequence
\* that is not the whole body.
C23_FailedReplacementLeavesWholeObject ==
    [][(/\ resp = NoResponse
        /\ resp'.op \in {"PutObject", "CopyObject", "CompleteMultipartUpload"}
        /\ resp'.status = 500) =>
          LET prior == RowsOf(objects, resp'.bucket, resp'.key)
              rows == RowsOf(objects', resp'.bucket, resp'.key)
              heads == {r \in rows : r.chunk_index = 0}
              whole == /\ Cardinality(heads) = 1
                       /\ {r.chunk_index : r \in rows} = 0..(Cardinality(rows) - 1)
                       /\ \A r \in heads :
                             r.size = Len(ConcatData(OrderByChunkIndex(rows)))
          IN  rows = prior \/ whole]_vars

(***************************************************************************)
(* SpecKeys: keys with characters a URL escapes.  The client sends the key *)
(* percent-encoded in the path and reads the keys of a listing from XML.   *)
(***************************************************************************)
\* The upper-case hex digit of n < 16
HexDigit(n) == IF n < 10 THEN 48 + n ELSE 55 + n

\* The path form of a key as an S3 client sends it: letters, digits, "-", "_",
\* ".", "~" and "/" as they are, every other code unit below 128 as %XX
RECURSIVE PercentEncode(_)
PercentEncode(s) ==
    IF s = <<>> THEN <<>>
    ELSE LET c == s[1]
             plain == c \in (48..57) \cup (65..90) \cup (97..122) \cup {45, 95, 46, 126, SLASH}
         IN  (IF plain THEN <<c>> ELSE <<PERCENT, HexDigit(c \div 16), HexDigit(c % 16)>>)
                 \o PercentEncode(Tail(s))

\* String.prototype.replace(/c/g, with)
RECURSIVE ReplaceAll(_, _, _)
ReplaceAll(s, c, with) ==
    IF s = <<>> THEN <<>>
    ELSE (IF s[1] = c THEN with ELSE <<s[1]>>) \o ReplaceAll(Tail(s), c, with)

\* escapeXml: "&" first, then "<", ">", the double and the single quote
escapeXml(unsafe) ==
    ReplaceAll(ReplaceAll(ReplaceAll(ReplaceAll(ReplaceAll(unsafe,
        38, <<38, 97, 109, 112, 59>>),
        60, <<38, 108, 116, 59>>),
        62, <<38, 103, 116, 59>>),
        34, <<38, 113, 117, 111, 116, 59>>),
        39, <<38, 97, 112, 111, 115, 59>>)

\* What an XML parser makes of character data: each of the five entities is
\* the character it names
RECURSIVE unescapeXml(_)
unescapeXml(s) ==
    LET entities == {<<<<38, 97, 109, 112, 59>>, 38>>, <<<<38, 108, 116, 59>>, 60>>,
                     <<<<38, 103, 116, 59>>, 62>>, <<<<38, 113, 117, 111, 116, 59>>, 34>>,
                     <<<<38, 97, 112, 111, 115, 59>>, 39>>}
        here == {e \in entities : StartsWith(s, e[1])}
    IN  IF s = <<>> THEN <<>>
        ELSE IF here # {}
             THEN LET e == CHOOSE x \in here : TRUE
                  IN  <<e[2]>> \o unescapeXml(SliceFrom(s, Len(e[1])))
        ELSE <<s[1]>> \o unescapeXml(Tail(s))

\* The keys a client reads from the <Key> elements of a listing
ListedKeys(response) ==
    [i \in 1..Len(response.contents) |-> unescapeXml(escapeXml(response.contents[i]))]

\* The keys "a b", "a&b", "a!", "%61", "a_b" and "a&/"
SpecialKeys ==
    {<<97, 32, 98>>, <<97, 38, 98>>, <<97, 33>>, <<PERCENT, 54, 49>>, <<97, 95, 98>>,
     <<97, 38, SLASH>>}

KeyInputs ==
    [handlers |-> {"h1"},
     paths |-> {PathOf(<<98>>, PercentEncode(k)) : k \in SpecialKeys},
     bodies |-> {<<1>>},
     headers |-> {""},
     bucketPaths |-> {<<SLASH, 98>>},
     prefixes |-> {<<>>},
     delimiters |-> {<<>>},
     maxKeys |-> {DefaultMaxKeys},
     markers |-> {<<>>},
     authorizations |-> {Bearer(JwtFor(<<98>>))}]

InitKeys ==
    /\ Constructed
    /\ objects = {}
    /\ uploads = {}
    /\ parts = {}
    /\ inflight = [h \in Handlers |-> Idle]
    /\ nextUuid = 0
    /\ resp = NoResponse
    /\ lastPut = [a \in {<<<<98>>, k>> : k \in SpecialKeys} |-> NoBody]
    /\ lastPart = [p \in (1..UnknownUploadId) \X AllPartNumbers |-> NoBody]
    /\ pager = NoPager

NextKeys ==
    \/ PutObjectStart(KeyInputs)
    \/ PutObjectStore(KeyInputs)
    \/ GetObject(KeyInputs)
    \/ ListObjectsV2(KeyInputs)
    \/ Respond
SpecKeys == InitKeys /\ [][NextKeys]_vars

\* C24: the key of a request is the path after "/<bucket>/", percent-decoded
\* exactly once, trailing slashes kept.  For keys with a space, "&", "!", "%"
\* or "_": a PutObject whose URL carries the percent-encoded key stores the raw
\* key; every stored key is such a raw key; a listing gives the stored keys
\* character for character; and GetObject with the encoded URL finds the
\* object exactly when the key is stored.
C24_KeysAreDecodedOnce ==
    LET RawOf(path) == CHOOSE k \in SpecialKeys : PathOf(<<98>>, PercentEncode(k)) = path
        stored == {r.key : r \in {q \in objects : q.chunk_index = 0}}
    IN  /\ stored \subseteq SpecialKeys
        /\ \A k \in SpecialKeys : lastPut[<<<<98>>, k>>] # NoBody <=> k \in stored
        /\ (resp.op = "PutObject" /\ resp.status = 200) =>
              /\ resp.key = RawOf(resp.path)
              /\ RawOf(resp.path) \in stored
        /\ resp.op = "GetObject" =>
              /\ resp.key = RawOf(resp.path)
              /\ resp.status = 200 <=> RawOf(resp.path) \in stored
        /\ resp.op = "ListObjectsV2" =>
              /\ resp.status = 200
              /\ ListedKeys(resp) = OrderByText(stored)

\* "%61" and "a&/" are stored and a listing has shown them.
C24_Witness ==
    /\ resp.op = "ListObjectsV2"
    /\ \E i, j \in 1..Len(resp.contents) :
          /\ ListedKeys(resp)[i] = <<PERCENT, 54, 49>>
          /\ ListedKeys(resp)[j] = <<97, 38, SLASH>>

(***************************************************************************)
(* SpecColumns: computeDepth and computeParent on every short key, as      *)
(* putObject calls them for the columns depth and parent of chunk 0.  The  *)
(* bucket holds one object at a time.                                      *)
(***************************************************************************)
\* How long the keys over "a" and "/" are at most
MaxKeyLen == 4

RECURSIVE StringsUpTo(_)
StringsUpTo(n) ==
    IF n = 0 THEN {<<>>}
    ELSE LET shorter == StringsUpTo(n - 1)
         IN  shorter \cup {Append(s, c) : s \in shorter, c \in {97, SLASH}}

\* Every non-empty key over "a" and "/" of at most MaxKeyLen code units, and
\* the keys "a/b/c" and "a/b/"
ColumnKeys ==
    (StringsUpTo(MaxKeyLen) \ {<<>>})
        \cup {<<97, SLASH, 98, SLASH, 99>>, <<97, SLASH, 98, SLASH>>}

ColumnInputs ==
    [handlers |-> {"h1"},
     paths |-> {PathOf(<<98>>, k) : k \in ColumnKeys},
     bodies |-> {<<1>>},
     headers |-> {""},
     authorizations |-> {Bearer(JwtFor(<<98>>))}]

InitColumns ==
    /\ Constructed
    /\ objects = {}
    /\ uploads = {}
    /\ parts = {}
    /\ inflight = [h \in Handlers |-> Idle]
    /\ nextUuid = 0
    /\ resp = NoResponse
    /\ lastPut = [a \in {<<<<98>>, k>> : k \in ColumnKeys} |-> NoBody]
    /\ lastPart = [p \in (1..UnknownUploadId) \X AllPartNumbers |-> NoBody]
    /\ pager = NoPager

NextColumns ==
    \/ (objects = {} /\ PutObjectStart(ColumnInputs))
    \/ PutObjectStore(ColumnInputs)
    \/ DeleteObject(ColumnInputs)
    \/ Respond
SpecColumns == InitColumns /\ [][NextColumns]_vars

\* C40: for every key, computeDepth is the number of "/" in the key, and
\* computeParent is the key cut after the last "/" that remains once one
\* trailing "/" is stripped, or the empty string when none remains:
\* parent("a/b/c") = "a/b/", parent("a/b/") = "a/", parent("a") = "",
\* parent("a/") = "".  A parent that is not empty ends in "/" and the key
\* starts with it.  Stated of the columns putObject stores with chunk 0.
C40_DepthAndParentAreAsDescribed ==
    \A r \in {q \in objects : q.chunk_index = 0} :
        LET key == r.key
            stripped == IF key[Len(key)] = SLASH THEN Len(key) - 1 ELSE Len(key)
            slashes == {i \in 1..stripped : key[i] = SLASH}
            last == CHOOSE i \in slashes : \A j \in slashes : j <= i
        IN  /\ r.depth = Len(SelectSeq(key, LAMBDA c : c = SLASH))
            /\ r.parent = IF slashes = {} THEN <<>> ELSE SubSeq(key, 1, last)
            /\ r.parent # <<>> =>
                  /\ r.parent[Len(r.parent)] = SLASH
                  /\ Len(r.parent) <= Len(key)
                  /\ \A i \in 1..Len(r.parent) : r.parent[i] = key[i]
            /\ key = <<97, SLASH, 98, SLASH, 99>> => r.parent = <<97, SLASH, 98, SLASH>>
            /\ key = <<97, SLASH, 98, SLASH>> => r.parent = <<97, SLASH>>
            /\ key = <<97>> => r.parent = <<>>
            /\ key = <<97, SLASH>> => r.parent = <<>>

\* The directory marker "a/b/" is stored, with parent "a/" and depth 2.
C40_Witness ==
    \E r \in objects :
        /\ r.key = <<97, SLASH, 98, SLASH>>
        /\ r.chunk_index = 0
        /\ r.parent = <<97, SLASH>>
        /\ r.depth = 2

(***************************************************************************)
(* SpecParts: the multipart operations on one key with two part numbers,   *)
(* part bodies of one and of two chunks, and a second upload id that no    *)
(* session has.                                                            *)
(***************************************************************************)
PartInputs == [MultipartInputs EXCEPT !.strayIds = {UnknownUploadId}]
NextParts == Engine(PartInputs)
SpecParts == Init /\ [][NextParts]_vars

\* C32: UploadPart(U, n, b) replaces part n entirely.  After the step the
\* rows of (U, n) are the chunks 0..k of b and nothing else, their data in
\* chunk order is b, chunk 0 carries the size and the ETag of b; the rows of
\* every other part number and upload id are as before; running the same
\* statements once more on the result changes nothing.
C32_UploadPartReplacesThePart ==
    [][(resp = NoResponse /\ resp'.op = "UploadPart" /\ resp'.status = 200) =>
        LET U == resp'.uploadId
            n == resp'.partNumber
            b == resp'.reqBody
            own == {r \in parts' : r.upload_id = U /\ r.part_number = n}
            chunkCount == IF Len(b) = 0 THEN 1
                          ELSE (Len(b) + CHUNK_SIZE - 1) \div CHUNK_SIZE
        IN  /\ {r.chunk_index : r \in own} = 0..(chunkCount - 1)
            /\ Cardinality(own) = chunkCount
            /\ ConcatData(OrderByChunkIndex(own)) = b
            /\ \A r \in own : r.chunk_index = 0 => r.size = Len(b) /\ r.etag = Md5(b)
            /\ resp'.etag = Md5(b)
            /\ parts' \ own = {r \in parts : ~(r.upload_id = U /\ r.part_number = n)}
            /\ uploadPart(parts', U, n, b) = parts'
      ]_vars

\* UploadPart has just stored the one-chunk body as part 1 of upload 1 and
\* no second chunk of that part exists, while part 2 holds two chunks and a
\* part of the other upload id is stored.
C32_Witness ==
    /\ resp.op = "UploadPart"
    /\ resp.uploadId = 1
    /\ resp.partNumber = 1
    /\ resp.reqBody = <<1>>
    /\ lastPart[<<1, 1>>] = <<1>>
    /\ \E r \in parts : r.upload_id = 1 /\ r.part_number = 2 /\ r.chunk_index = 1
    /\ \E r \in parts : r.upload_id = UnknownUploadId
    /\ ~ \E r \in parts : r.upload_id = 1 /\ r.part_number = 1 /\ r.chunk_index = 1

(***************************************************************************)
(* SpecMeta: two keys written by PutObject, CopyObject and                 *)
(* CompleteMultipartUpload, with and without a Content-Type header, and    *)
(* read back by GetObject and HeadObject.                                  *)
(***************************************************************************)
MetaHeaders == {"", "text/plain"}
MetaInputs ==
    [Inputs EXCEPT !.bodies = {<<1>>, <<2, 3, 4>>},
                   !.headers = MetaHeaders,
                   !.strayIds = {}]
NextMeta == Engine(MetaInputs)
SpecMeta == Init /\ [][NextMeta]_vars

\* What GetObject (headOnly FALSE) or HeadObject (TRUE) reports of a key:
\* status, ETag, Content-Length, Content-Type
ReportedMeta(objs, bucket, key, headOnly) ==
    LET r == getObject(objs, bucket, key, headOnly)
    IN  <<r.status, r.etag, r.contentLength, r.contentType>>

\* C33: GetObject and HeadObject of a key report the ETag, size and content
\* type of the most recent successful write of the key.  After a PutObject
\* answered 200: the ETag it returned, which is the hash of the body, the
\* length of the body, and the Content-Type header or application/octet-stream.
\* After a CopyObject answered 200: what was reported of the source before.
\* After a CompleteMultipartUpload answered 200: the ETag it returned, ending
\* in the number of parts, the sum of the part sizes, and the content type
\* of the session.  No other step but a DeleteObject of the key changes what
\* is reported of it.
C33_ReadsReportTheLastWrite ==
    [][\A headOnly \in BOOLEAN :
        /\ \A header \in MetaHeaders :
              PutObjectStore([MetaInputs EXCEPT !.headers = {header}]) =>
                  ReportedMeta(objects', resp'.bucket, resp'.key, headOnly)
                      = <<200, resp'.etag, Len(resp'.reqBody), ContentTypeOf(header)>>
                  /\ resp'.etag = Md5(resp'.reqBody)
        /\ (resp = NoResponse /\ resp'.op = "CopyObject" /\ resp'.status = 200) =>
              ReportedMeta(objects', resp'.bucket, resp'.key, headOnly)
                  = ReportedMeta(objects, resp'.bucket, resp'.source, headOnly)
        /\ (resp = NoResponse /\ resp'.op = "CompleteMultipartUpload"
                /\ resp'.status = 200) =>
              LET session == CHOOSE u \in uploads : u.upload_id = resp'.uploadId
                  first == {r \in parts : r.upload_id = resp'.uploadId
                                             /\ r.chunk_index = 0}
              IN  /\ ReportedMeta(objects', resp'.bucket, resp'.key, headOnly)
                         = <<200, resp'.etag, SumSizes(OrderByPartNumber(first)),
                             session.content_type>>
                  /\ resp'.etag = SyntheticETag(Cardinality(first))
        /\ \A a \in Addrs :
              ReportedMeta(objects', a[1], a[2], headOnly)
                      # ReportedMeta(objects, a[1], a[2], headOnly) =>
                  /\ resp'.op \in {"PutObject", "CopyObject", "CompleteMultipartUpload",
                                   "DeleteObject"}
                  /\ resp'.status \in {200, 204}
                  /\ <<resp'.bucket, resp'.key>> = a
      ]_vars

\* C39: in every reachable state the data of every row of objects and of
\* multipart_parts is at most CHUNK_SIZE bytes long, whichever of PutObject,
\* CopyObject, UploadPart and CompleteMultipartUpload wrote the row.
C39_ChunksAreAtMostChunkSize ==
    /\ \A r \in objects : Len(r.data) <= CHUNK_SIZE
    /\ \A r \in parts : Len(r.data) <= CHUNK_SIZE

\* An object assembled by CompleteMultipartUpload has a full chunk, a second
\* key holds an object of two chunks, and a part is stored.
C39_Witness ==
    /\ \E r \in objects : r.etag.kind = "uuid" /\ Len(r.data) = CHUNK_SIZE
    /\ \E r, q \in objects :
          /\ r.key # q.key
          /\ q.chunk_index = 1
          /\ r.etag.kind = "uuid"
    /\ parts # {}

(***************************************************************************)
(* SpecFrame: every operation of handleRequest on two keys and two upload  *)
(* ids, to see which rows each of them touches.                            *)
(***************************************************************************)
\* headBucket answers 200 for any bucket and runs no statement.
HeadBucket(in) ==
    \E path \in in.bucketPaths :
        LET bucket == FirstPathPart(path)
            key == ExtractKey(path, bucket)
        IN  /\ resp = NoResponse
            /\ handleRequest("HEAD", key, FALSE, 0, FALSE, <<>>) = "headBucket"
            /\ resp' = [NoResponse EXCEPT !.op = "HeadBucket", !.status = 200,
                            !.bucket = bucket, !.path = path]
            /\ UNCHANGED <<objects, uploads, parts, inflight, nextUuid, lastPut, lastPart>>
            /\ Fetch(in, "HEAD", bucket)

\* GET on the bucket with ?uploads and no markers
ListMultipartUploadsFirstPage(in) ==
    \E path \in in.bucketPaths, prefix \in in.prefixes, maxUploads \in in.maxKeys :
        LET bucket == FirstPathPart(path)
            key == ExtractKey(path, bucket)
        IN  /\ resp = NoResponse
            /\ handleRequest("GET", key, TRUE, 0, FALSE, <<>>) = "listMultipartUploads"
            /\ resp' = listMultipartUploads(uploads, bucket, prefix, <<>>, 0, maxUploads)
            /\ UNCHANGED <<objects, uploads, parts, inflight, nextUuid, lastPut, lastPart>>
            /\ Fetch(in, "GET", bucket)

FrameInputs == [Inputs EXCEPT !.bodies = {<<1>>, <<2, 3, 4>>}]
NextFrame ==
    \/ Engine(FrameInputs)
    \/ HeadBucket(FrameInputs)
    \/ ListMultipartUploadsFirstPage(FrameInputs)
SpecFrame == Init /\ [][NextFrame]_vars

\* C37: PutObject, CopyObject, DeleteObject and CompleteMultipartUpload leave the
\* objects rows of every other (bucket, key) as they are; PutObject, CopyObject
\* and DeleteObject leave multipart_uploads and multipart_parts as they are;
\* CompleteMultipartUpload and AbortMultipartUpload change in these two tables
\* only rows of their own upload id, and AbortMultipartUpload no objects row;
\* GetObject, HeadObject, HeadBucket, ListObjectsV2 and ListMultipartUploads
\* change no row at all.
C37_OperationsTouchOnlyTheirOwnRows ==
    [][resp = NoResponse /\ resp' # NoResponse =>
        LET op == resp'.op
            elsewhere(objs) ==
                {r \in objs : <<r.bucket, r.key>> # <<resp'.bucket, resp'.key>>}
            others(rows) == {r \in rows : r.upload_id # resp'.uploadId}
        IN  /\ op \in {"PutObject", "CopyObject", "DeleteObject",
                       "CompleteMultipartUpload"} =>
                  elsewhere(objects') = elsewhere(objects)
            /\ op \in {"PutObject", "CopyObject", "DeleteObject"} =>
                  uploads' = uploads /\ parts' = parts
            /\ op \in {"CompleteMultipartUpload", "AbortMultipartUpload"} =>
                  others(uploads') = others(uploads) /\ others(parts') = others(parts)
            /\ op = "AbortMultipartUpload" => objects' = objects
            /\ op \in {"GetObject", "HeadObject", "HeadBucket", "ListObjectsV2",
                       "ListMultipartUploads"} =>
                  objects' = objects /\ uploads' = uploads /\ parts' = parts
      ]_vars

\* CompleteMultipartUpload has just written its object while another key
\* holds an object and parts of another upload id are stored.
C37_Witness ==
    /\ resp.op = "CompleteMultipartUpload"
    /\ resp.status = 200
    /\ \E r \in objects : r.bucket = resp.bucket /\ r.key = resp.key
    /\ \E r \in objects : r.key # resp.key
    /\ \E r \in parts : r.upload_id # resp.uploadId

\* C31: UploadPart, CompleteMultipartUpload and AbortMultipartUpload act only on
\* a session whose stored bucket and key are those of the request.  When the
\* session of the request's upload id was created for another bucket or key,
\* a Complete creates no object, and an Abort or UploadPart leaves the
\* session and its parts unchanged.
C31_MultipartRequestsMatchTheSessionAddress ==
    [][(/\ resp = NoResponse
        /\ resp'.op \in {"UploadPart", "CompleteMultipartUpload", "AbortMultipartUpload"}
        /\ \E u \in uploads :
              /\ u.upload_id = resp'.uploadId
              /\ <<u.bucket, u.key>> # <<resp'.bucket, resp'.key>>)
        => /\ objects' = objects
           /\ uploads' = uploads
           /\ parts' = parts
      ]_vars

\* C34: every authentication failure is answered with an S3 Error envelope of
\* status 401, or 403 when a verified token names another bucket, and fetch
\* never raises instead: also for a token that has not three parts, and for a
\* three-part token whose middle segment does not decode to JSON or has no
\* sub.
C34_AuthenticationFailuresAreAnswered ==
    (resp # NoResponse /\ resp.op = "fetch" /\ resp.bucket # <<>>) =>
        LET authorization == request.authorization
            token == authorization.token
            carried == \/ authorization.scheme = "Bearer"
                       \/ /\ authorization.scheme = "AWS4-HMAC-SHA256"
                          /\ authorization.credential
            wellFormed == token.parts = 3 /\ token.decodes /\ token.sub
            \* verifyToken: signature, expiry, and a bucket claim is present
            verified == /\ wellFormed /\ token.signed /\ ~token.expired
                        /\ token.bucket # <<>>
            failed == ~carried \/ (token.text # "foo" /\
                                     (~verified \/ token.bucket # resp.bucket))
        IN  failed =>
              /\ resp.code # "UncaughtException"
              /\ IF carried /\ verified
                 THEN resp.status = 403 /\ resp.code = "Forbidden"
                 ELSE resp.status = 401 /\ resp.code = "Unauthorized"

\* The Authorization header carries a token that fetch accepts for the bucket:
\* "foo", or a token that verifies and whose bucket claim is the bucket
CarriesValidAuthorization(authorization, bucket) ==
    LET token == authorization.token
    IN  /\ \/ authorization.scheme = "Bearer"
           \/ authorization.scheme = "AWS4-HMAC-SHA256" /\ authorization.credential
        /\ \/ token.text = "foo"
           \/ /\ token.parts = 3 /\ token.decodes /\ token.sub
              /\ token.signed /\ ~token.expired
              /\ token.bucket # <<>> /\ token.bucket = bucket

\* C35: no request changes the stored rows, starts a handler or adds a
\* subscriber unless its Authorization header authenticates it for the bucket
\* it addresses; a WebSocket upgrade without valid authorization registers no
\* subscriber.
C35_OnlyAuthenticatedRequestsChangeState ==
    [][/\ (/\ resp = NoResponse
           /\ resp' # NoResponse
           /\ \/ objects' # objects
              \/ uploads' # uploads
              \/ parts' # parts
              \/ nextUuid' # nextUuid
              \/ webSocketClients' \ webSocketClients # {})
          => CarriesValidAuthorization(request'.authorization, resp'.bucket)
       /\ \A h \in Handlers :
             (inflight'[h] # inflight[h] /\ inflight'[h] # Idle) =>
                 CarriesValidAuthorization(inflight'[h].authorization, inflight'[h].bucket)
      ]_vars

\* C36: a socket is in the subscriber set from its WebSocket upgrade until its
\* first close or error event or failed send.  It enters the set only by its
\* upgrade and leaves it only when its connection has ended, by the listener
\* or by a send that throws; while it is in the set and its connection is
\* open, the event of every broadcast request is appended to what it has been
\* sent, so the events arrive in the order the requests completed; a socket
\* that is not in the set is sent nothing.
C36_SubscribedFromUpgradeUntilCloseOrFailedSend ==
    [][LET answered == resp = NoResponse /\ resp' # NoResponse
           upgrade == answered /\ resp'.op = "WebSocketUpgrade"
           broadcast ==
               /\ answered /\ ~upgrade
               /\ Authenticate(request'.authorization, resp'.bucket).outcome = "jwt"
           closeEvent(ws) ==
               ~answered /\ sockets[ws].state = "closed" /\ sockets'[ws].state = "none"
       IN  /\ upgrade => \E ws \in Sockets :
                 /\ sockets[ws].state = "none"
                 /\ webSocketClients' = webSocketClients \cup {ws}
                 /\ sockets'[ws].state = "open"
           /\ \A ws \in Sockets :
                 /\ (ws \in webSocketClients' /\ ws \notin webSocketClients) => upgrade
                 /\ (ws \in webSocketClients /\ ws \notin webSocketClients') =>
                       /\ sockets[ws].state = "closed"
                       /\ closeEvent(ws) \/ broadcast
                 /\ closeEvent(ws) => ws \notin webSocketClients'
                 /\ (broadcast /\ ws \in webSocketClients) =>
                       IF sockets[ws].state = "open"
                       THEN /\ ws \in webSocketClients'
                            /\ sockets'[ws].outbox =
                                   Append(sockets[ws].outbox,
                                          EventOf(request'.method, resp'))
                       ELSE ws \notin webSocketClients'
                 /\ (~broadcast \/ ws \notin webSocketClients) =>
                       Len(sockets'[ws].outbox) <= Len(sockets[ws].outbox)
      ]_vars

\* One subscriber has been sent the event of the request just answered; the
\* other's connection had ended and the failed send removed it from the set.
C36_Witness ==
    /\ resp # NoResponse
    /\ "w1" \in webSocketClients /\ sockets["w1"].state = "open"
    /\ sockets["w1"].outbox = <<EventOf(request.method, resp)>>
    /\ "w2" \notin webSocketClients /\ sockets["w2"].state = "closed"

(***************************************************************************)
(* SpecCredential: the Authorization header as text.  The token is what    *)
(* fetch takes out of the header: everything after "Bearer ", or the first *)
(* match of /Credential=([^\/,]+)/ in a header that starts with            *)
(* "AWS4-HMAC-SHA256".                                                     *)
(***************************************************************************)
COMMA == 44
DOT == 46
\* "Bearer ", "AWS4-HMAC-SHA256", " Credential=" and "Credential="
BearerPrefix == <<66, 101, 97, 114, 101, 114, 32>>
Aws4Prefix == <<65, 87, 83, 52, 45, 72, 77, 65, 67, 45, 83, 72, 65, 50, 53, 54>>
CredentialField == <<67, 114, 101, 100, 101, 110, 116, 105, 97, 108, 61>>

\* Faulty variant: /Credential=([^,]+)/, the match not ended by "/"
credentialMatchThroughSlash(authHeader) ==
    LET n == Len(CredentialField)
        starts == {p \in 1..Len(authHeader) :
                      /\ p + n <= Len(authHeader)
                      /\ SubSeq(authHeader, p, p + n - 1) = CredentialField
                      /\ authHeader[p + n] # COMMA}
        p == CHOOSE q \in starts : \A r \in starts : q <= r
        ends == {q \in (p + n)..(Len(authHeader) + 1) :
                    q = Len(authHeader) + 1 \/ authHeader[q] = COMMA}
        stop == CHOOSE q \in ends : \A r \in ends : q <= r
    IN  IF starts = {} THEN <<>> ELSE SubSeq(authHeader, p + n, stop - 1)

\* authHeader.match(/Credential=([^\/,]+)/)[1]: the group of the leftmost
\* match, as long as it can be; <<>> when nothing matches (a match is never
\* empty)
credentialMatch(authHeader) ==
    LET n == Len(CredentialField)
        starts == {p \in 1..Len(authHeader) :
                      /\ p + n <= Len(authHeader)
                      /\ SubSeq(authHeader, p, p + n - 1) = CredentialField
                      /\ authHeader[p + n] \notin {SLASH, COMMA}}
        p == CHOOSE q \in starts : \A r \in starts : q <= r
        ends == {q \in (p + n)..(Len(authHeader) + 1) :
                    q = Len(authHeader) + 1 \/ authHeader[q] \in {SLASH, COMMA}}
        stop == CHOOSE q \in ends : \A r \in ends : q <= r
    IN  IF starts = {} THEN <<>> ELSE SubSeq(authHeader, p + n, stop - 1)

\* The tokens of the model by their text: "foo", "h.b.s" and "h.c.s" for the
\* tokens signToken makes for the buckets "b" and "c", "x.y", and "x.y.z"
\* whose middle part does not decode
TokenTexts ==
    {<<102, 111, 111>>, <<104, DOT, 98, DOT, 115>>, <<104, DOT, 99, DOT, 115>>,
     <<120, DOT, 121>>, <<120, DOT, 121, DOT, 122>>}

\* What the checks of fetch find in a token of a given text; of a text that
\* is none of TokenTexts only token.split(".").length is known, and that its
\* middle part does not decode
TokenOfText(text) ==
    IF text = <<102, 111, 111>> THEN FooToken
    ELSE IF text = <<104, DOT, 98, DOT, 115>> THEN JwtFor(<<98>>)
    ELSE IF text = <<104, DOT, 99, DOT, 115>> THEN JwtFor(<<99>>)
    ELSE [NoToken EXCEPT !.text = "other",
                         !.parts = Cardinality({i \in 1..Len(text) : text[i] = DOT}) + 1]

\* fetch from headers.get("Authorization") to the token; <<>> is no header
AuthorizationOf(authHeader) ==
    IF authHeader = <<>> THEN NoAuthorization
    ELSE IF StartsWith(authHeader, BearerPrefix)
         THEN Bearer(TokenOfText(SliceFrom(authHeader, Len(BearerPrefix))))
    ELSE IF StartsWith(authHeader, Aws4Prefix)
         THEN IF credentialMatch(authHeader) = <<>>
              THEN [Aws4(NoToken) EXCEPT !.credential = FALSE]
              ELSE Aws4(TokenOfText(credentialMatch(authHeader)))
    ELSE [scheme |-> "Basic", credential |-> FALSE, token |-> NoToken]

\* What follows the first "/" of the Credential field: "1", "/", ",x" and
\* "Credential=foo/"
CredentialRests ==
    {<<49>>, <<SLASH>>, <<COMMA, 120>>, CredentialField \o <<102, 111, 111, SLASH>>}

BearerHeader(text) == BearerPrefix \o text
Aws4Header(text, rest) ==
    Aws4Prefix \o <<32>> \o CredentialField \o text \o <<SLASH>> \o rest

CredentialHeaders ==
    {BearerHeader(t) : t \in TokenTexts}
        \cup {Aws4Header(t, rest) : t \in TokenTexts, rest \in CredentialRests}

CredentialInputs ==
    [AuthInputs EXCEPT !.authorizations = {AuthorizationOf(h) : h \in CredentialHeaders}]
NextCredential == Engine(CredentialInputs) \/ Reject(CredentialInputs)
SpecCredential == Init /\ [][NextCredential]_vars

\* C38: for every token t without "/" and ",", a request with "Bearer t" and
\* the same request with "AWS4-HMAC-SHA256 Credential=t/..." have the same
\* authentication outcome and, when admitted, the same operation, status and
\* state change, whatever follows the first "/".  Every answered step of a
\* request that carries t in one form is also the step of the request that
\* carries t in the other form with any rest: both headers yield the same
\* token, and under either header the request is refused with the code and
\* the status of this response and no row changed, or is admitted.
C38_BearerAndCredentialFormsAgree ==
    [][(resp = NoResponse /\ resp' # NoResponse) =>
        \A t \in TokenTexts, rest \in CredentialRests :
            LET forms == {AuthorizationOf(BearerHeader(t)),
                          AuthorizationOf(Aws4Header(t, rest))}
            IN  request'.authorization \in forms =>
                  /\ \A x, y \in forms : x.token = y.token
                  /\ \A x \in forms :
                        LET a == Authenticate(x, resp'.bucket)
                        IN  IF a.outcome \in {"foo", "jwt"}
                            THEN /\ resp'.op # "fetch"
                                 /\ Admitted(x, resp'.bucket)
                            ELSE /\ resp'.op = "fetch"
                                 /\ resp'.code = a.code
                                 /\ resp'.status = a.status
                                 /\ UNCHANGED <<objects, uploads, parts>>
                  /\ \A x, y \in forms :
                        Authenticate(x, resp'.bucket) = Authenticate(y, resp'.bucket)
      ]_vars

\* A PutObject sent with the token in the Credential field has been stored
\* and answered 200.
C38_Witness ==
    /\ resp.op = "PutObject" /\ resp.status = 200
    /\ request.authorization =
           AuthorizationOf(Aws4Header(<<104, DOT, 98, DOT, 115>>, <<49>>))
    /\ request.authorization.token = JwtFor(<<98>>)
    /\ objects # {}

====
